---- MODULE Spec2Model ----
(***************************************************************************)
(* cf-purge-worker: the deletion executor (internal/deleter), the          *)
(* dependency analyzer (internal/analyzer), the API client's delete        *)
(* wrappers (internal/api), the command (cmd) and its interactive session  *)
(* (internal/ui), as state machines.                                       *)
(*                                                                         *)
(*   Spec          Deleter.Execute, Deleter.DeleteWorkerOnly and the       *)
(*                 command's run, against a remote API whose every delete  *)
(*                 call may answer ok, NotFound or RemoteError.            *)
(*   SpecClassify  Analyzer.calculateRiskLevel on bounded reference lists. *)
(*   SpecAnalyze   Analyzer.AnalyzeDependencies followed by                *)
(*                 Analyzer.CreateDeletionPlan, on bounded accounts.       *)
(*   SpecKinds     the same, on accounts with bindings of every kind.      *)
(*   SpecPlan      Analyzer.CreateDeletionPlan on bounded resource lists.  *)
(*   SpecScenario  analysis, plan and Execute on the billing-svc account.  *)
(*   SpecSession   the interactive session (internal/ui): key presses,     *)
(*                 the analysis and deletion messages, and the Execute it  *)
(*                 starts.                                                 *)
(***************************************************************************)
EXTENDS Naturals, Sequences, FiniteSets

VARIABLES
    \* ---- Deleter / command ----
    entry,      \* which entry point is running: "none", "Execute", "DeleteWorkerOnly", "run"
    pc,         \* control position inside the running entry point
    dryRun,     \* Deleter.dryRun
    config,     \* types.Config (the flags the command reads)
    plan,       \* the *types.DeletionPlan handed to Execute
    idx,        \* position of Execute's loop over plan.ResourcesToDelete (1-based)
    result,     \* the *types.DeletionResult Execute builds
    retErr,     \* the error the running entry point returns
    exitCode,   \* the command's exit status once run has ended
    calls,      \* the remote delete calls issued so far, in order, with their answers
    \* ---- calculateRiskLevel ----
    usedBy,     \* the usedBy argument
    targetWorker, \* the targetWorker argument
    level,      \* the returned types.RiskLevel
    cpc,        \* "ready" before calculateRiskLevel has run, "done" after
    \* ---- AnalyzeDependencies / CreateDeletionPlan ----
    apc,        \* control position of the analysis
    account,    \* worker name -> the bindings the settings endpoint holds for it
    target,     \* the *types.WorkerInfo snapshot passed as targetWorker
    scanIdx,    \* position of the loop over allWorkers (1-based)
    fetched,    \* worker name -> "pending" | "ok" | "failed": whether the scan got its bindings
    resourceMap,\* resource key -> *types.ResourceUsage
    resIdx,     \* position of the loop over targetWorker.Bindings (1-based)
    resources,  \* the []types.ResourceUsage built for the target
    lookups,    \* outcome of each display-name lookup made, in order
    progress,   \* the calls of the progress callback, in order
    aerr,       \* the error AnalyzeDependencies returns
    aplan,      \* the plan CreateDeletionPlan returns
    \* ---- the interactive session (ui/models.Model) ----
    state,      \* Model.state, the sessionState
    mplan,      \* Model.plan
    mResult,    \* Model.Result (NoResult while nil)
    mErr,       \* Model.Err
    skipDependencyCheck, \* Model.skipDependencyCheck
    skipShared, \* Model.skipShared
    quit,       \* tea.Quit has been returned: the program has ended
    keyed,      \* sessionState -> the kind of the last key pressed in that state ("" if none)
    \* ---- the session's progressTracker ----
    pmu,        \* progressTracker.mu: who holds the sync.RWMutex
    pcurrent,   \* progressTracker.current
    ptotal,     \* progressTracker.total
    pworkerName,\* progressTracker.workerName
    upc,        \* position of the analysis goroutine inside update
    updIdx,     \* number of the callback invocation update is, or is next, called for
    gpc,        \* position of the UI poller inside get
    got,        \* the values get has read so far, then the triple it returned
    shown       \* Model.analysisProgress, analysisTotal and analysisWorker

dvars == <<entry, pc, dryRun, config, plan, idx, result, retErr, exitCode, calls>>
cvars == <<usedBy, targetWorker, level, cpc>>
avars == <<apc, account, target, scanIdx, fetched, resourceMap, resIdx, resources,
           lookups, progress, aerr, aplan>>
tvars == <<state, mplan, mResult, mErr, skipDependencyCheck, skipShared, quit, keyed>>
pvars == <<pmu, pcurrent, ptotal, pworkerName, upc, updIdx, gpc, got, shown>>
vars == <<dvars, cvars, avars, tvars, pvars>>

----------------------------------------------------------------------------
(* pkg/types *)

BindingTypeKV == "kv_namespace"
BindingTypeR2 == "r2_bucket"
BindingTypeD1 == "d1"
BindingTypeDurableObject == "durable_object_namespace"
BindingTypeService == "service"
BindingTypeQueue == "queue"
BindingTypeHyperdrive == "hyperdrive"
BindingTypeVectorize == "vectorize"
BindingTypeEnvVar == "plain_text"
BindingTypeSecret == "secret_text"
BindingTypeMTLS == "mtls_certificate"

RiskLevelSafe == 0
RiskLevelCaution == 1
RiskLevelDanger == 2

RiskLevels == {RiskLevelSafe, RiskLevelCaution, RiskLevelDanger}

\* errors: nil is the empty sequence; fmt.Errorf("msg: %w", err) puts msg in front
NilError == <<>>
Errorf(msg, err) == <<msg>> \o err

\* the zero value of types.DeletionPlan / types.DeletionResult / types.Config
NoWorker == [Name |-> "", Bindings |-> <<>>]
NoPlan == [Worker |-> NoWorker, ResourcesToDelete |-> <<>>, HasSharedResources |-> FALSE,
           DeleteShared |-> FALSE, DeleteExclusiveOnly |-> FALSE]
NoResult == [Success |-> FALSE, WorkerDeleted |-> FALSE, ResourcesDeleted |-> <<>>,
             ResourcesSkipped |-> <<>>, Errors |-> <<>>]
NoConfig == [DryRun |-> FALSE, Force |-> FALSE, ExclusiveOnly |-> FALSE,
             AutoYes |-> FALSE, JSONOutput |-> FALSE]

SeqsUpTo(S, n) == UNION {[1..k -> S] : k \in 0..n}

\* a map without entries
EmptyMap == [k \in {} |-> k]
MapPut(m, k, v) == [x \in DOMAIN m \cup {k} |-> IF x = k THEN v ELSE m[x]]

\* the variables of a component that is not running
DeleterIdle ==
    /\ entry = "none" /\ pc = "idle" /\ dryRun = FALSE /\ config = NoConfig
    /\ plan = NoPlan /\ idx = 1 /\ result = NoResult /\ retErr = NilError
    /\ exitCode = 0 /\ calls = <<>>
ClassifyIdle == usedBy = <<>> /\ targetWorker = "" /\ level = RiskLevelSafe /\ cpc = "ready"
AnalyzeIdle ==
    /\ apc = "idle" /\ account = EmptyMap /\ target = NoWorker /\ scanIdx = 1
    /\ fetched = EmptyMap /\ resourceMap = EmptyMap /\ resIdx = 1 /\ resources = <<>>
    /\ lookups = <<>> /\ progress = <<>> /\ aerr = NilError /\ aplan = NoPlan
TuiIdle ==
    /\ state = "none" /\ mplan = NoPlan /\ mResult = NoResult /\ mErr = NilError
    /\ skipDependencyCheck = FALSE /\ skipShared = FALSE /\ quit = FALSE
    /\ keyed = EmptyMap
\* &progressTracker{}: the zero value, nobody inside update or get
NoProgress == [current |-> 0, total |-> 0, workerName |-> ""]
MutexFree == [writer |-> FALSE, readers |-> 0]
TrackerIdle ==
    /\ pmu = MutexFree
    /\ pcurrent = 0 /\ ptotal = 0 /\ pworkerName = ""
    /\ upc = "idle" /\ updIdx = 1 /\ gpc = "idle" /\ got = NoProgress
    /\ shown = NoProgress


----------------------------------------------------------------------------
(* Bounds and input sets *)

\* longest ResourcesToDelete of a plan handed directly to Execute
MaxPlanLen == 2
\* longest analysed resource list the command's run receives
MaxAnalysed == 1
\* longest usedBy list handed to calculateRiskLevel
MaxUsedBy == 3
\* most bindings the scanned account holds, all workers together
MaxBindings == 4
\* the same, for the accounts that hold bindings of every kind
MaxKindBindings == 2

TargetName == "billing-svc"
OtherNames == <<"reports-svc", "audit-svc", "mail-svc">>

\* a reference list that calculateRiskLevel classifies as the given level
UsedByFor(risk) ==
    IF risk = RiskLevelSafe THEN <<TargetName>>
    ELSE IF risk = RiskLevelCaution THEN <<TargetName, OtherNames[1]>>
    ELSE <<TargetName>> \o OtherNames

\* one resource of each type, as a types.ResourceUsage
ResourceOfType(t, risk) ==
    [ResourceType |-> t,
     ResourceID   |-> CASE t = BindingTypeKV -> "ns-1"
                        [] t = BindingTypeR2 -> "assets"
                        [] t = BindingTypeD1 -> "db-7"
                        [] t = BindingTypeDurableObject -> "Counter"
                        [] t = BindingTypeService -> "auth-svc"
                        [] t = BindingTypeQueue -> "jobs"
                        [] OTHER -> "hd-1",
     ResourceName |-> CASE t = BindingTypeKV -> "sessions"
                        [] t = BindingTypeR2 -> "assets"
                        [] t = BindingTypeD1 -> "billing-db"
                        [] t = BindingTypeDurableObject -> "Counter"
                        [] t = BindingTypeService -> "auth-svc"
                        [] t = BindingTypeQueue -> "jobs"
                        [] OTHER -> "HYPERDRIVE",
     UsedBy       |-> UsedByFor(risk),
     RiskLevel    |-> risk]

\* the types for which getResourceKey yields a key: only these reach an analysed list
KeyedTypes == {BindingTypeKV, BindingTypeR2, BindingTypeD1, BindingTypeDurableObject,
               BindingTypeService, BindingTypeQueue}

\* entries of a plan a caller may hand to Execute (DeletionPlan is an exported struct)
PlanEntries == {ResourceOfType(t, r) : t \in KeyedTypes \cup {BindingTypeHyperdrive}, r \in RiskLevels}
\* entries AnalyzeDependencies can return
AnalysedEntries == {ResourceOfType(t, r) : t \in KeyedTypes, r \in RiskLevels}

TargetWorkerInfo == [Name |-> TargetName, Bindings |-> <<>>]

Configs == [DryRun : BOOLEAN, Force : BOOLEAN, ExclusiveOnly : BOOLEAN,
            AutoYes : BOOLEAN, JSONOutput : BOOLEAN]

\* what the remote API answers to one delete call
RemoteOutcomes == {"ok", "NotFound", "RemoteError"}

----------------------------------------------------------------------------
(* internal/analyzer: CreateDeletionPlan *)

\* mutant: exclusive-only drops the Danger entries only
CreateDeletionPlanKeepsCaution(worker, rs, exclusiveOnly) ==
    [Worker |-> worker,
     ResourcesToDelete |->
        SelectSeq(rs, LAMBDA r : ~(exclusiveOnly /\ r.RiskLevel = RiskLevelDanger)),
     HasSharedResources |-> \E i \in DOMAIN rs : rs[i].RiskLevel # RiskLevelSafe,
     DeleteShared |-> FALSE,
     DeleteExclusiveOnly |-> exclusiveOnly]

\* mutant: shared entries are dropped whatever exclusiveOnly says
CreateDeletionPlanDropsShared(worker, rs, exclusiveOnly) ==
    [Worker |-> worker,
     ResourcesToDelete |-> SelectSeq(rs, LAMBDA r : r.RiskLevel = RiskLevelSafe),
     HasSharedResources |-> \E i \in DOMAIN rs : rs[i].RiskLevel # RiskLevelSafe,
     DeleteShared |-> FALSE,
     DeleteExclusiveOnly |-> exclusiveOnly]

\* mutant: the entries are appended to those of the plan built before
CreateDeletionPlanAccumulates(worker, rs, exclusiveOnly) ==
    [Worker |-> worker,
     ResourcesToDelete |->
        aplan.ResourcesToDelete \o
        SelectSeq(rs, LAMBDA r : ~(exclusiveOnly /\ r.RiskLevel # RiskLevelSafe)),
     HasSharedResources |-> \E i \in DOMAIN rs : rs[i].RiskLevel # RiskLevelSafe,
     DeleteShared |-> FALSE,
     DeleteExclusiveOnly |-> exclusiveOnly]

CreateDeletionPlan(worker, rs, exclusiveOnly) ==
    [Worker |-> worker,
     ResourcesToDelete |->
        SelectSeq(rs, LAMBDA r : ~(exclusiveOnly /\ r.RiskLevel # RiskLevelSafe)),
     HasSharedResources |-> \E i \in DOMAIN rs : rs[i].RiskLevel # RiskLevelSafe,
     DeleteShared |-> FALSE,
     DeleteExclusiveOnly |-> exclusiveOnly]

----------------------------------------------------------------------------
(* internal/api: the delete wrappers of the client *)

\* the error the cloudflare-go call returns for a remote answer
CfError(outcome) == IF outcome = "ok" THEN NilError ELSE <<outcome>>

ClientDelete(msg, outcome) ==
    IF CfError(outcome) # NilError THEN Errorf(msg, CfError(outcome)) ELSE NilError

DeleteWorker(outcome) == ClientDelete("failed to delete worker", outcome)
DeleteKVNamespace(outcome) == ClientDelete("failed to delete KV namespace", outcome)
DeleteR2Bucket(outcome) == ClientDelete("failed to delete R2 bucket", outcome)
DeleteD1Database(outcome) == ClientDelete("failed to delete D1 database", outcome)

Call(op, arg, outcome) == [op |-> op, arg |-> arg, outcome |-> outcome]

ResourceDeleteOps == {"DeleteKVNamespace", "DeleteR2Bucket", "DeleteD1Database"}

----------------------------------------------------------------------------
(* internal/deleter *)

NewResult == [Success |-> TRUE, WorkerDeleted |-> FALSE, ResourcesDeleted |-> <<>>,
              ResourcesSkipped |-> <<>>, Errors |-> <<>>]

ResourceNames(rs) == [i \in DOMAIN rs |-> rs[i].ResourceName]

\* mutant: the preview leaves out what the policy would skip
DryRunResultSkipping(p) ==
    [Success |-> TRUE, WorkerDeleted |-> TRUE,
     ResourcesDeleted |-> [i \in DOMAIN SelectSeq(p.ResourcesToDelete, LAMBDA r : p.DeleteShared \/ r.RiskLevel = RiskLevelSafe) |->
        SelectSeq(p.ResourcesToDelete, LAMBDA r : p.DeleteShared \/ r.RiskLevel = RiskLevelSafe)[i].ResourceName],
     ResourcesSkipped |-> <<>>, Errors |-> <<>>]

\* Execute, dry-run branch
DryRunResult(p) ==
    [NewResult EXCEPT !.WorkerDeleted = TRUE,
                      !.ResourcesDeleted = ResourceNames(p.ResourcesToDelete)]

\* mutant: the failure is recorded but Success is left true
WorkerFailedKeepsSuccess(res, err) ==
    [res EXCEPT !.Errors = Append(res.Errors, Errorf("failed to delete worker", err))]

\* Execute, step 1 failed
WorkerFailed(res, err) ==
    [res EXCEPT !.Success = FALSE,
                !.Errors = Append(res.Errors, Errorf("failed to delete worker", err))]

\* mutant: the loop over the resources runs whatever DeleteWorker returned
AfterDeleteWorkerNoStop(err) == "resources"

\* where Execute goes after the DeleteWorker call
AfterDeleteWorker(err) == IF err # NilError THEN "returned" ELSE "resources"

\* mutant: only Danger is held back
SkipSharedDangerOnly(p, resource) == ~p.DeleteShared /\ resource.RiskLevel = RiskLevelDanger

\* Execute, step 2: the policy skip
SkipShared(p, resource) == ~p.DeleteShared /\ resource.RiskLevel # RiskLevelSafe

\* the remote calls deleteResource issues for a resource
deleteResourceCalls(resource, outcome) ==
    CASE resource.ResourceType = BindingTypeKV ->
            <<Call("DeleteKVNamespace", resource.ResourceID, outcome)>>
      [] resource.ResourceType = BindingTypeR2 ->
            <<Call("DeleteR2Bucket", resource.ResourceID, outcome)>>
      [] resource.ResourceType = BindingTypeD1 ->
            <<Call("DeleteD1Database", resource.ResourceID, outcome)>>
      [] OTHER -> <<>>

\* mutant: the queue case is missing
deleteResourceNoQueue(resource, outcome) ==
    CASE resource.ResourceType = BindingTypeKV -> DeleteKVNamespace(outcome)
      [] resource.ResourceType = BindingTypeR2 -> DeleteR2Bucket(outcome)
      [] resource.ResourceType = BindingTypeD1 -> DeleteD1Database(outcome)
      [] resource.ResourceType = BindingTypeDurableObject -> NilError
      [] resource.ResourceType = BindingTypeService -> NilError
      [] OTHER -> <<"unsupported resource type", resource.ResourceType>>

deleteResource(resource, outcome) ==
    CASE resource.ResourceType = BindingTypeKV -> DeleteKVNamespace(outcome)
      [] resource.ResourceType = BindingTypeR2 -> DeleteR2Bucket(outcome)
      [] resource.ResourceType = BindingTypeD1 -> DeleteD1Database(outcome)
      [] resource.ResourceType = BindingTypeDurableObject -> NilError
      [] resource.ResourceType = BindingTypeService -> NilError
      [] resource.ResourceType = BindingTypeQueue -> NilError
      [] OTHER -> <<"unsupported resource type", resource.ResourceType>>

\* mutant: a failed resource gets its error but is not listed as skipped
RecordResourceDropsFailed(res, resource, err) ==
    IF err # NilError
    THEN [res EXCEPT !.Errors = Append(res.Errors, err)]
    ELSE [res EXCEPT !.ResourcesDeleted = Append(res.ResourcesDeleted, resource.ResourceName)]

\* Execute, step 2: the outcome of deleteResource is recorded
RecordResource(res, resource, err) ==
    IF err # NilError
    THEN [res EXCEPT !.Errors = Append(res.Errors, err),
                     !.ResourcesSkipped = Append(res.ResourcesSkipped, resource.ResourceName)]
    ELSE [res EXCEPT !.ResourcesDeleted = Append(res.ResourcesDeleted, resource.ResourceName)]

\* mutant: the first failure ends the loop
NextResourceAbort(i, err) ==
    IF err # NilError THEN Len(plan.ResourcesToDelete) + 1 ELSE i + 1

\* mutant: a failed resource is tried again
NextResourceRetry(i, err) == IF err # NilError THEN i ELSE i + 1

\* where the loop goes after one resource
NextResource(i, err) == i + 1

\* mutant: a skipped resource counts as a failure
MarkSuccessStrict(res) ==
    IF Len(res.Errors) > 0 \/ Len(res.ResourcesSkipped) > 0
    THEN [res EXCEPT !.Success = FALSE] ELSE res

\* Execute, the closing check
MarkSuccess(res) == IF Len(res.Errors) > 0 THEN [res EXCEPT !.Success = FALSE] ELSE res

\* Execute up to its first remote call: the result is built and the dry-run
\* branch returns at once
ExecuteEnter(d, p) ==
    /\ plan' = p
    /\ idx' = 1
    /\ retErr' = NilError
    /\ IF d
       THEN result' = DryRunResult(p) /\ pc' = "returned"
       ELSE result' = NewResult /\ pc' = "deleteWorker"

\* a caller hands a plan to Execute
ExecuteBegin ==
    /\ pc = "idle"
    /\ entry' = "Execute"
    /\ \E rs \in SeqsUpTo(PlanEntries, MaxPlanLen), shared \in BOOLEAN :
          ExecuteEnter(dryRun, [CreateDeletionPlan(TargetWorkerInfo, rs, FALSE)
                                  EXCEPT !.DeleteShared = shared])
    /\ UNCHANGED <<dryRun, config, exitCode, calls>>

\* Step 1: Delete the worker script
ExecuteDeleteWorker ==
    /\ pc = "deleteWorker"
    /\ \E outcome \in RemoteOutcomes :
          LET err == DeleteWorker(outcome) IN
          /\ calls' = Append(calls, Call("DeleteWorker", plan.Worker.Name, outcome))
          /\ pc' = AfterDeleteWorker(err)
          /\ IF err # NilError
             THEN result' = WorkerFailed(result, err) /\ retErr' = err
             ELSE result' = [result EXCEPT !.WorkerDeleted = TRUE] /\ retErr' = retErr
    /\ UNCHANGED <<entry, dryRun, config, plan, idx, exitCode>>

\* mutant: the loop consumes the plan: a handled entry is marked in place
ExecuteResourceMarksPlan ==
    /\ pc = "resources"
    /\ idx <= Len(plan.ResourcesToDelete)
    /\ LET resource == plan.ResourcesToDelete[idx] IN
       IF SkipShared(plan, resource)
       THEN /\ result' = [result EXCEPT !.ResourcesSkipped =
                              Append(result.ResourcesSkipped, resource.ResourceName)]
            /\ idx' = idx + 1
            /\ calls' = calls
            /\ plan' = plan
       ELSE \E outcome \in RemoteOutcomes :
               LET err == deleteResource(resource, outcome) IN
               /\ calls' = calls \o deleteResourceCalls(resource, outcome)
               /\ result' = RecordResource(result, resource, err)
               /\ idx' = NextResource(idx, err)
               /\ plan' = [plan EXCEPT !.ResourcesToDelete[idx].UsedBy = <<>>]
    /\ UNCHANGED <<entry, pc, dryRun, config, retErr, exitCode>>

\* Step 2: one iteration of the loop over plan.ResourcesToDelete
ExecuteResource ==
    /\ pc = "resources"
    /\ idx <= Len(plan.ResourcesToDelete)
    /\ LET resource == plan.ResourcesToDelete[idx] IN
       IF SkipShared(plan, resource)
       THEN /\ result' = [result EXCEPT !.ResourcesSkipped =
                              Append(result.ResourcesSkipped, resource.ResourceName)]
            /\ idx' = idx + 1
            /\ calls' = calls
       ELSE \E outcome \in RemoteOutcomes :
               LET err == deleteResource(resource, outcome) IN
               /\ calls' = calls \o deleteResourceCalls(resource, outcome)
               /\ result' = RecordResource(result, resource, err)
               /\ idx' = NextResource(idx, err)
    /\ UNCHANGED <<entry, pc, dryRun, config, plan, retErr, exitCode>>

\* the loop is over: mark the result and return it
ExecuteReturn ==
    /\ pc = "resources"
    /\ idx > Len(plan.ResourcesToDelete)
    /\ result' = MarkSuccess(result)
    /\ retErr' = NilError
    /\ pc' = "returned"
    /\ UNCHANGED <<entry, dryRun, config, plan, idx, exitCode, calls>>

\* DeleteWorkerOnly deletes only the worker script, not resources
DeleteWorkerOnlyCalls(d, workerName, outcome) ==
    IF d THEN <<>> ELSE <<Call("DeleteWorker", workerName, outcome)>>

DeleteWorkerOnly ==
    /\ pc = "idle"
    /\ entry' = "DeleteWorkerOnly"
    /\ \E outcome \in RemoteOutcomes :
          /\ calls' = calls \o DeleteWorkerOnlyCalls(dryRun, TargetName, outcome)
          /\ retErr' = IF dryRun THEN NilError ELSE DeleteWorker(outcome)
    /\ pc' = "workerOnlyReturned"
    /\ UNCHANGED <<dryRun, config, plan, idx, result, exitCode>>

----------------------------------------------------------------------------
(* cmd: run, from the construction of the deleter on *)

IsInteractive(c) == ~c.Force /\ ~c.AutoYes /\ ~c.DryRun /\ ~c.JSONOutput

\* mutant: --force and --yes win over --exclusive-only
RunDeleteSharedForceWins(c, current) ==
    IF c.Force \/ c.AutoYes THEN TRUE
    ELSE IF c.ExclusiveOnly THEN FALSE
    ELSE current

\* Set deletion flags based on config
RunDeleteShared(c, current) ==
    IF c.ExclusiveOnly THEN FALSE
    ELSE IF c.Force \/ c.AutoYes THEN TRUE
    ELSE current

\* mutant: the dry-run return is missing
RunStopsAtPlanJSONOnly(c) == c.JSONOutput

\* whether run stops after building the plan, before any deletion
RunStopsAtPlan(c) == c.JSONOutput \/ c.DryRun

RunStart ==
    /\ pc = "idle"
    /\ entry' = "run"
    /\ \E c \in Configs :
          /\ c.DryRun = dryRun
          /\ config' = c
          /\ IF IsInteractive(c)
             THEN \* the interactive session takes over
                  /\ pc' = "interactive"
                  /\ UNCHANGED <<plan, idx, result, retErr, exitCode>>
             ELSE \/ \* AnalyzeDependencies fails
                     /\ retErr' = Errorf("failed to analyze dependencies",
                                         <<"failed to list workers">>)
                     /\ exitCode' = 1
                     /\ pc' = "exited"
                     /\ UNCHANGED <<plan, idx, result>>
                  \/ \E rs \in SeqsUpTo(AnalysedEntries, MaxAnalysed) :
                       LET p == CreateDeletionPlan(TargetWorkerInfo, rs, c.ExclusiveOnly) IN
                       IF RunStopsAtPlan(c)
                       THEN /\ plan' = p
                            /\ pc' = "exited"
                            /\ UNCHANGED <<idx, result, retErr, exitCode>>
                       ELSE /\ ExecuteEnter(dryRun, [p EXCEPT !.DeleteShared =
                                                      RunDeleteShared(c, p.DeleteShared)])
                            /\ UNCHANGED exitCode
    /\ UNCHANGED <<dryRun, calls>>

\* Execute has returned to run
RunFinish ==
    /\ entry = "run"
    /\ pc = "returned"
    /\ pc' = "exited"
    /\ IF retErr # NilError
       THEN retErr' = Errorf("deletion failed", retErr) /\ exitCode' = 1
       ELSE retErr' = retErr /\ exitCode' = IF result.Success THEN 0 ELSE 1
    /\ UNCHANGED <<entry, dryRun, config, plan, idx, result, calls>>


----------------------------------------------------------------------------
(* The specifications *)

\* NewDeleter(client, dryRun)
Init ==
    /\ entry = "none" /\ pc = "idle" /\ dryRun \in BOOLEAN /\ config = NoConfig
    /\ plan = NoPlan /\ idx = 1 /\ result = NoResult /\ retErr = NilError
    /\ exitCode = 0 /\ calls = <<>>
    /\ ClassifyIdle /\ AnalyzeIdle /\ TuiIdle /\ TrackerIdle

Next ==
    \/ ExecuteBegin /\ UNCHANGED <<cvars, avars, tvars, pvars>>
    \/ ExecuteDeleteWorker /\ UNCHANGED <<cvars, avars, tvars, pvars>>
    \/ ExecuteResource /\ UNCHANGED <<cvars, avars, tvars, pvars>>
    \/ ExecuteReturn /\ UNCHANGED <<cvars, avars, tvars, pvars>>
    \/ DeleteWorkerOnly /\ UNCHANGED <<cvars, avars, tvars, pvars>>
    \/ RunStart /\ UNCHANGED <<cvars, avars, tvars, pvars>>
    \/ RunFinish /\ UNCHANGED <<cvars, avars, tvars, pvars>>

Spec == Init /\ [][Next]_vars

----------------------------------------------------------------------------
(* Properties of Execute, DeleteWorkerOnly and run (specification Spec) *)

\* an Execute call is running or has returned
InExecute == entry \in {"Execute", "run"} /\ pc \in {"deleteWorker", "resources", "returned"}
\* a real-mode Execute has returned
RealReturned == InExecute /\ pc = "returned" /\ ~dryRun
\* the answer of the DeleteWorker call of this run
WorkerCallFailed == calls # <<>> /\ calls[1].op = "DeleteWorker" /\ calls[1].outcome # "ok"
WorkerCallOk == calls # <<>> /\ calls[1].op = "DeleteWorker" /\ calls[1].outcome = "ok"

\* the plan's entries as the executor's contract sees them
Planned == plan.ResourcesToDelete
Eligible(i) == plan.DeleteShared \/ Planned[i].RiskLevel = RiskLevelSafe
HasRemoteStore(i) == Planned[i].ResourceType \in {BindingTypeKV, BindingTypeR2, BindingTypeD1}
NoStoreKind(i) == Planned[i].ResourceType \in
                    {BindingTypeDurableObject, BindingTypeService, BindingTypeQueue}
Attempted(i) == Eligible(i) /\ HasRemoteStore(i)
\* the position in calls of the delete call made for plan entry i
CallPos(i) == 1 + Cardinality({j \in 1..i : Attempted(j)})
EntryFailed(i) ==
    \/ Attempted(i) /\ CallPos(i) <= Len(calls) /\ calls[CallPos(i)].outcome # "ok"
    \/ Eligible(i) /\ ~HasRemoteStore(i) /\ ~NoStoreKind(i)
EntrySucceeded(i) == Eligible(i) /\ ~EntryFailed(i)
Positions == [i \in 1..Len(Planned) |-> i]
NamesAt(ps) == [k \in DOMAIN ps |-> Planned[ps[k]].ResourceName]

\* C1: in a real-mode Execute the first remote call is DeleteWorker, a
\* kind-specific resource delete is issued only after DeleteWorker returned
\* success, and a failed DeleteWorker is the only call of the run.
C1_WorkerFirst ==
    (entry \in {"Execute", "run"} /\ ~dryRun) =>
        /\ calls # <<>> => calls[1].op = "DeleteWorker"
        /\ \A i \in DOMAIN calls :
              calls[i].op \in ResourceDeleteOps => (i > 1 /\ WorkerCallOk)
        /\ WorkerCallFailed => Len(calls) = 1
C1_Witness ==
    /\ RealReturned /\ WorkerCallFailed /\ plan.DeleteShared
    /\ \E i \in DOMAIN Planned : HasRemoteStore(i)

\* C2: when DeleteWorker fails, Execute returns Success=false,
\* WorkerDeleted=false, nothing deleted, nothing skipped, exactly one error, and
\* a non-nil error; it returns a non-nil error in no other case.
C2_WorkerFailure ==
    (InExecute /\ pc = "returned") =>
        /\ (~dryRun /\ WorkerCallFailed) =>
              /\ result.Success = FALSE
              /\ result.WorkerDeleted = FALSE
              /\ result.ResourcesDeleted = <<>>
              /\ result.ResourcesSkipped = <<>>
              /\ Len(result.Errors) = 1
              /\ retErr # NilError
        /\ retErr # NilError => (~dryRun /\ WorkerCallFailed)
C2_Witness ==
    /\ RealReturned /\ WorkerCallFailed /\ Len(Planned) >= 2 /\ ~plan.DeleteShared
    /\ \E i \in DOMAIN Planned : Planned[i].RiskLevel # RiskLevelSafe

\* C3: with DeleteShared false, the loop step on a resource above Safe issues
\* no call, appends the resource to ResourcesSkipped, leaves Errors and
\* ResourcesDeleted alone and moves to the next resource.
C3_SharedSkipped ==
    [][(/\ InExecute /\ pc = "resources" /\ idx <= Len(Planned)
        /\ ~plan.DeleteShared
        /\ Planned[idx].RiskLevel # RiskLevelSafe)
       => (/\ calls' = calls
           /\ result'.ResourcesSkipped =
                 Append(result.ResourcesSkipped, Planned[idx].ResourceName)
           /\ result'.Errors = result.Errors
           /\ result'.ResourcesDeleted = result.ResourcesDeleted
           /\ idx' = idx + 1
           /\ pc' = "resources")]_vars
C3_Witness ==
    /\ InExecute /\ pc = "resources" /\ ~plan.DeleteShared /\ idx = 2
    /\ Planned[1].RiskLevel = RiskLevelCaution /\ HasRemoteStore(1)
    /\ result.ResourcesSkipped = <<Planned[1].ResourceName>>
    /\ Len(calls) = 1

\* C4: a failed resource delete does not abort the batch: every eligible
\* resource gets its call, in plan order; a failing one is in ResourcesSkipped
\* with one error in Errors, a succeeding one in ResourcesDeleted, and the run
\* returns Success=false when a resource failed.
C4_NoAbort ==
    (RealReturned /\ result.WorkerDeleted) =>
        LET attempted == SelectSeq(Positions, Attempted)
            failed == SelectSeq(Positions, EntryFailed)
            skipped == SelectSeq(Positions, LAMBDA i : ~Eligible(i) \/ EntryFailed(i))
            succeeded == SelectSeq(Positions, EntrySucceeded)
        IN /\ idx = Len(Planned) + 1
           /\ Len(calls) = 1 + Len(attempted)
           /\ \A k \in DOMAIN attempted :
                 calls[k + 1].arg = Planned[attempted[k]].ResourceID
           /\ result.ResourcesSkipped = NamesAt(skipped)
           /\ result.ResourcesDeleted = NamesAt(succeeded)
           /\ Len(result.Errors) = Len(failed)
           /\ failed # <<>> => result.Success = FALSE
C4_Witness ==
    /\ RealReturned /\ Len(calls) = 3
    /\ calls[2].outcome = "RemoteError" /\ calls[3].outcome = "ok"
    /\ Len(result.ResourcesDeleted) = 1 /\ Len(result.ResourcesSkipped) = 1
    /\ result.Success = FALSE

\* C5: after a real-mode Execute, Success is false exactly when the worker
\* delete failed or Errors is non-empty; a policy skip alone leaves it true.
C5_SuccessIff ==
    RealReturned =>
        (result.Success = FALSE <=> (WorkerCallFailed \/ result.Errors # <<>>))
C5_Witness ==
    /\ RealReturned /\ result.Success /\ result.ResourcesSkipped # <<>>
    /\ result.Errors = <<>>

\* C6: a delete that fails because the target is already absent (NotFound)
\* counts as success: with every remote answer ok or NotFound, and every
\* eligible entry of a kind deleteResource handles, the run ends with
\* Success=true, the worker deleted, no error and nothing but policy skips.
C6_NotFoundIsSuccess ==
    (/\ RealReturned
     /\ \A i \in DOMAIN calls : calls[i].outcome \in {"ok", "NotFound"}
     /\ \A i \in DOMAIN Planned : Eligible(i) => (HasRemoteStore(i) \/ NoStoreKind(i)))
    => /\ result.Success
       /\ result.WorkerDeleted
       /\ result.Errors = <<>>
       /\ result.ResourcesSkipped = NamesAt(SelectSeq(Positions, LAMBDA i : ~Eligible(i)))

\* C7: with dry-run set no remote delete call is issued on any path, and the
\* command's run ends after building the plan without entering Execute.
C7_DryRunNoCalls ==
    /\ dryRun => calls = <<>>
    /\ (entry = "run" /\ config.DryRun) =>
          (pc = "exited" /\ result = NoResult /\ calls = <<>>)
C7_Witness ==
    /\ entry = "run" /\ config.DryRun /\ config.Force /\ ~config.JSONOutput
    /\ pc = "exited" /\ Planned # <<>>

\* C8: a dry-run Execute returns Success=true, WorkerDeleted=true, no error,
\* nothing skipped, and the names of all planned entries, in plan order, as
\* ResourcesDeleted.
C8_DryRunResult ==
    (InExecute /\ pc = "returned" /\ dryRun) =>
        /\ result.Success /\ result.WorkerDeleted
        /\ result.Errors = <<>> /\ result.ResourcesSkipped = <<>>
        /\ result.ResourcesDeleted = NamesAt(Positions)
        /\ retErr = NilError
C8_Witness ==
    /\ InExecute /\ pc = "returned" /\ dryRun /\ Len(Planned) = 2
    /\ ~plan.DeleteShared /\ Planned[1].RiskLevel = RiskLevelDanger
    /\ Planned[1].ResourceName # Planned[2].ResourceName

\* the client call that deletes a resource of a kind with a remote store
DeleteOpOf(t) ==
    CASE t = BindingTypeKV -> "DeleteKVNamespace"
      [] t = BindingTypeR2 -> "DeleteR2Bucket"
      [] t = BindingTypeD1 -> "DeleteD1Database"
      [] OTHER -> "none"
\* the plan entries the loop has gone past
Done == 1..(idx - 1)

\* C18: in a real-mode Execute a remote delete is attempted at most once per
\* plan item: there is one DeleteWorker call, the first, and the calls after it
\* are, in plan order, one call for each entry the loop has gone past that is
\* eligible and has a remote store, whether that call failed or not.
C18_AtMostOnce ==
    (InExecute /\ ~dryRun) =>
        /\ Cardinality({i \in DOMAIN calls : calls[i].op = "DeleteWorker"})
              = IF pc = "deleteWorker" THEN 0 ELSE 1
        /\ Len(calls) = (IF pc = "deleteWorker" THEN 0 ELSE 1)
                            + Cardinality({j \in Done : Attempted(j)})
        /\ \A j \in Done :
              Attempted(j) =>
                 /\ calls[CallPos(j)].op = DeleteOpOf(Planned[j].ResourceType)
                 /\ calls[CallPos(j)].arg = Planned[j].ResourceID
        /\ pc = "returned" => (WorkerCallFailed \/ idx = Len(Planned) + 1)

\* the delete of the first of two resources failed: the run made its three
\* calls and no more
C18_Witness ==
    /\ RealReturned /\ WorkerCallOk
    /\ Len(Planned) = 2 /\ Attempted(1) /\ Attempted(2)
    /\ Len(calls) = 3 /\ calls[2].outcome = "RemoteError"
    /\ Len(result.Errors) = 1

\* C19: the loop step on an eligible resource of a kind without a backing
\* store of its own (durable-object class, service link, queue) issues no
\* remote call, appends the resource to ResourcesDeleted and leaves
\* ResourcesSkipped and Errors alone.
C19_NoStoreIsNoOp ==
    [][(/\ InExecute /\ pc = "resources" /\ idx <= Len(Planned)
        /\ NoStoreKind(idx) /\ Eligible(idx))
       => (/\ calls' = calls
           /\ result'.ResourcesDeleted =
                 Append(result.ResourcesDeleted, Planned[idx].ResourceName)
           /\ result'.ResourcesSkipped = result.ResourcesSkipped
           /\ result'.Errors = result.Errors
           /\ idx' = idx + 1
           /\ pc' = "resources")]_vars

\* a shared queue and an exclusive durable-object class, executed with
\* DeleteShared: both are reported deleted after the single DeleteWorker call
C19_Witness ==
    /\ RealReturned /\ WorkerCallOk /\ plan.DeleteShared
    /\ Len(Planned) = 2
    /\ Planned[1].ResourceType = BindingTypeQueue
    /\ Planned[1].RiskLevel = RiskLevelCaution
    /\ Planned[2].ResourceType = BindingTypeDurableObject
    /\ result.ResourcesDeleted = ResourceNames(Planned)
    /\ result.ResourcesSkipped = <<>> /\ result.Errors = <<>>
    /\ Len(calls) = 1 /\ result.Success

----------------------------------------------------------------------------
(* internal/analyzer: calculateRiskLevel *)

\* Count other workers (excluding the target)
otherCount(ub, tw) == Cardinality({i \in DOMAIN ub : ub[i] # tw})

\* mutant: the target counts as a user like any other
calculateRiskLevelCountsTarget(ub, tw) ==
    IF Len(ub) = 0 THEN RiskLevelSafe
    ELSE IF Len(ub) <= 2 THEN RiskLevelCaution
    ELSE RiskLevelDanger

\* mutant: the second comparison is turned around
calculateRiskLevelFlipped(ub, tw) ==
    IF otherCount(ub, tw) = 0 THEN RiskLevelSafe
    ELSE IF otherCount(ub, tw) >= 2 THEN RiskLevelCaution
    ELSE RiskLevelDanger

calculateRiskLevel(ub, tw) ==
    IF otherCount(ub, tw) = 0 THEN RiskLevelSafe
    ELSE IF otherCount(ub, tw) <= 2 THEN RiskLevelCaution
    ELSE RiskLevelDanger

WorkerNames == {TargetName} \cup {OtherNames[i] : i \in DOMAIN OtherNames}

Classify ==
    /\ cpc = "ready"
    /\ level' = calculateRiskLevel(usedBy, targetWorker)
    /\ cpc' = "done"
    /\ UNCHANGED <<usedBy, targetWorker>>

InitClassify ==
    /\ usedBy \in SeqsUpTo(WorkerNames, MaxUsedBy)
    /\ targetWorker \in {TargetName, OtherNames[1]}
    /\ level = RiskLevelSafe
    /\ cpc = "ready"
    /\ DeleterIdle /\ AnalyzeIdle /\ TuiIdle /\ TrackerIdle

NextClassify == Classify /\ UNCHANGED <<dvars, avars, tvars, pvars>>

SpecClassify == InitClassify /\ [][NextClassify]_vars

\* the tier the design gives to a number of other workers
TierOf(n) ==
    IF n = 0 THEN RiskLevelSafe ELSE IF n <= 2 THEN RiskLevelCaution ELSE RiskLevelDanger

\* the list with w put in front of position i, and the list without position i
InsertAt(q, i, w) == SubSeq(q, 1, i - 1) \o <<w>> \o SubSeq(q, i, Len(q))
RemoveAt(q, i) == SubSeq(q, 1, i - 1) \o SubSeq(q, i + 1, Len(q))

\* C20: classification is monotonic with Safe < Caution < Danger: a worker
\* name other than the target added anywhere to the reference list never
\* lowers the level calculateRiskLevel returned, and taking a name out of the
\* list (one occurrence, or the worker altogether) never raises it.
C20_Monotonic ==
    cpc = "done" =>
        /\ \A w \in WorkerNames \ {targetWorker} : \A i \in 1..(Len(usedBy) + 1) :
              calculateRiskLevel(InsertAt(usedBy, i, w), targetWorker) >= level
        /\ \A i \in DOMAIN usedBy :
              /\ calculateRiskLevel(RemoveAt(usedBy, i), targetWorker) <= level
              /\ calculateRiskLevel(SelectSeq(usedBy, LAMBDA n : n # usedBy[i]), targetWorker)
                    <= level

\* a list with two other workers is Caution; one more worker makes it Danger
\* and one less keeps it Caution
C20_Witness ==
    /\ cpc = "done"
    /\ targetWorker = TargetName
    /\ usedBy = <<TargetName, OtherNames[1], OtherNames[2]>>
    /\ level = RiskLevelCaution
    /\ calculateRiskLevel(Append(usedBy, OtherNames[3]), targetWorker) = RiskLevelDanger
    /\ calculateRiskLevel(RemoveAt(usedBy, 3), targetWorker) = RiskLevelCaution

\* C9: the risk level is decided by the number of distinct worker names of the
\* reference list that differ from the target: 0 Safe, 1-2 Caution, 3+ Danger.
C9_DistinctOthers ==
    cpc = "done" =>
        level = TierOf(Cardinality({usedBy[i] : i \in DOMAIN usedBy} \ {targetWorker}))

----------------------------------------------------------------------------
(* internal/analyzer: AnalyzeDependencies (its helpers first) *)

\* a types.Binding as Client.parseBinding builds it: the fields of other kinds
\* stay empty, and DatabaseName is never filled in
Binding(type, name, id) ==
    [Type |-> type, Name |-> name,
     NamespaceID  |-> IF type = BindingTypeKV THEN id ELSE "",
     BucketName   |-> IF type = BindingTypeR2 THEN id ELSE "",
     DatabaseID   |-> IF type = BindingTypeD1 THEN id ELSE "",
     DatabaseName |-> "",
     ClassName    |-> IF type = BindingTypeDurableObject THEN id ELSE "",
     ScriptName   |-> IF type \in {BindingTypeDurableObject, BindingTypeService}
                      THEN "auth-svc" ELSE "",
     QueueName    |-> IF type = BindingTypeQueue THEN id ELSE ""]

\* the bindings the workers of the scanned account may declare
BindingCatalog ==
    {Binding(BindingTypeKV, "CACHE", "ns-1"),
     Binding(BindingTypeKV, "SESSIONS", "ns-1"),
     Binding(BindingTypeD1, "DB", "db-7")}

\* the account listing, in the order ListWorkers returns it
ListedWorkers == <<OtherNames[1], TargetName, OtherNames[2]>>
Listed == {ListedWorkers[i] : i \in DOMAIN ListedWorkers}

\* the display names the remote catalogue holds
RemoteTitle(id) == IF id = "ns-1" THEN "sessions-kv" ELSE "billing-db"

\* the key of a binding without a resource key
NoKey == ""

\* mutant: a KV namespace is keyed by the local binding name
getResourceKeyByName(binding) ==
    CASE binding.Type = BindingTypeKV -> "kv:" \o binding.Name
      [] binding.Type = BindingTypeR2 -> "r2:" \o binding.BucketName
      [] binding.Type = BindingTypeD1 -> "d1:" \o binding.DatabaseID
      [] binding.Type = BindingTypeDurableObject ->
            "do:" \o binding.ClassName \o ":" \o binding.ScriptName
      [] binding.Type = BindingTypeService -> "service:" \o binding.ScriptName
      [] binding.Type = BindingTypeQueue -> "queue:" \o binding.QueueName
      [] OTHER -> NoKey

\* mutant: every kind gets a key
getResourceKeyAllKinds(binding) ==
    CASE binding.Type = BindingTypeKV -> "kv:" \o binding.NamespaceID
      [] binding.Type = BindingTypeR2 -> "r2:" \o binding.BucketName
      [] binding.Type = BindingTypeD1 -> "d1:" \o binding.DatabaseID
      [] binding.Type = BindingTypeDurableObject ->
            "do:" \o binding.ClassName \o ":" \o binding.ScriptName
      [] binding.Type = BindingTypeService -> "service:" \o binding.ScriptName
      [] binding.Type = BindingTypeQueue -> "queue:" \o binding.QueueName
      [] OTHER -> binding.Type \o ":" \o binding.Name

\* mutant: hyperdrive bindings get a key too
getResourceKeyHyperdrive(binding) ==
    CASE binding.Type = BindingTypeKV -> "kv:" \o binding.NamespaceID
      [] binding.Type = BindingTypeR2 -> "r2:" \o binding.BucketName
      [] binding.Type = BindingTypeD1 -> "d1:" \o binding.DatabaseID
      [] binding.Type = BindingTypeDurableObject ->
            "do:" \o binding.ClassName \o ":" \o binding.ScriptName
      [] binding.Type = BindingTypeService -> "service:" \o binding.ScriptName
      [] binding.Type = BindingTypeQueue -> "queue:" \o binding.QueueName
      [] binding.Type = BindingTypeHyperdrive -> "hyperdrive:" \o binding.Name
      [] OTHER -> NoKey

\* getResourceKey returns a unique key for a resource
getResourceKey(binding) ==
    CASE binding.Type = BindingTypeKV -> "kv:" \o binding.NamespaceID
      [] binding.Type = BindingTypeR2 -> "r2:" \o binding.BucketName
      [] binding.Type = BindingTypeD1 -> "d1:" \o binding.DatabaseID
      [] binding.Type = BindingTypeDurableObject ->
            "do:" \o binding.ClassName \o ":" \o binding.ScriptName
      [] binding.Type = BindingTypeService -> "service:" \o binding.ScriptName
      [] binding.Type = BindingTypeQueue -> "queue:" \o binding.QueueName
      [] OTHER -> NoKey

getResourceID(binding) ==
    CASE binding.Type = BindingTypeKV -> binding.NamespaceID
      [] binding.Type = BindingTypeR2 -> binding.BucketName
      [] binding.Type = BindingTypeD1 -> binding.DatabaseID
      [] binding.Type = BindingTypeDurableObject -> binding.ClassName
      [] binding.Type = BindingTypeService -> binding.ScriptName
      [] binding.Type = BindingTypeQueue -> binding.QueueName
      [] OTHER -> binding.Name

getResourceName(binding) ==
    CASE binding.Type = BindingTypeKV -> binding.Name
      [] binding.Type = BindingTypeR2 -> binding.BucketName
      [] binding.Type = BindingTypeD1 -> binding.DatabaseName
      [] binding.Type = BindingTypeDurableObject -> binding.ClassName
      [] binding.Type = BindingTypeService -> binding.ScriptName
      [] binding.Type = BindingTypeQueue -> binding.QueueName
      [] OTHER -> binding.Name

\* whether enrichResourceName asks the remote catalogue for a name
NeedsLookup(binding, currentName) ==
    /\ ~(currentName # "" /\ currentName # binding.Name)
    /\ binding.Type \in {BindingTypeKV, BindingTypeD1}

\* mutant: a failed lookup leaves the entry without a name
enrichResourceNameClears(binding, currentName, lookupOk) ==
    IF currentName # "" /\ currentName # binding.Name THEN currentName
    ELSE IF binding.Type = BindingTypeKV /\ lookupOk THEN RemoteTitle(binding.NamespaceID)
    ELSE IF binding.Type = BindingTypeD1 /\ lookupOk THEN RemoteTitle(binding.DatabaseID)
    ELSE ""

\* enrichResourceName, given whether the lookup (if one is made) succeeds
enrichResourceName(binding, currentName, lookupOk) ==
    IF currentName # "" /\ currentName # binding.Name THEN currentName
    ELSE IF binding.Type = BindingTypeKV /\ lookupOk THEN RemoteTitle(binding.NamespaceID)
    ELSE IF binding.Type = BindingTypeD1 /\ lookupOk THEN RemoteTitle(binding.DatabaseID)
    ELSE currentName

\* a fresh *types.ResourceUsage for a binding
NewUsage(binding, ub) ==
    [ResourceID |-> getResourceID(binding), ResourceType |-> binding.Type,
     ResourceName |-> getResourceName(binding), UsedBy |-> ub,
     RiskLevel |-> RiskLevelSafe]

\* the name the scan adds to a key's UsedBy for one binding of a worker
AddUser(ub, workerName) == Append(ub, workerName)

\* the body of the loop over one worker's bindings
IndexBinding(rm, workerName, binding) ==
    LET key == getResourceKey(binding) IN
    IF key = NoKey THEN rm
    ELSE LET rm1 == IF key \in DOMAIN rm THEN rm
                    ELSE MapPut(rm, key, NewUsage(binding, <<>>))
         IN [rm1 EXCEPT ![key].UsedBy = AddUser(@, workerName)]

RECURSIVE IndexBindings(_, _, _)
IndexBindings(rm, workerName, bs) ==
    IF bs = <<>> THEN rm
    ELSE IndexBindings(IndexBinding(rm, workerName, Head(bs)), workerName, Tail(bs))

\* Client.GetWorker in the scan: the second listing or the lookup in it may
\* fail (an error), the settings endpoint may fail (no error, empty bindings)
FetchOutcomes == {"ok", "detailsFailed", "bindingsFailed"}
GetWorkerErr(outcome) ==
    IF outcome = "detailsFailed" THEN <<"failed to list workers">> ELSE NilError
\* mutant: the bindings known for the worker are used although the fetch failed
GetWorkerBindingsStale(name, outcome) == account[name]

GetWorkerBindings(name, outcome) == IF outcome = "ok" THEN account[name] ELSE <<>>

\* what the scan learns of a worker: either failure leaves it out of the index
FetchStatus(outcome) == IF outcome = "ok" THEN "ok" ELSE "failed"

\* a caller asks for the analysis of the target: ListWorkers answers
AnalyzeStart ==
    /\ apc = "idle"
    /\ \/ /\ aerr' = Errorf("failed to list workers", <<"failed to list workers">>)
          /\ apc' = "returned"
          /\ UNCHANGED resourceMap
       \/ /\ apc' = "scan"
          /\ resourceMap' = EmptyMap
          /\ aerr' = NilError
    /\ UNCHANGED <<account, target, scanIdx, fetched, resIdx, resources, lookups,
                   progress, aplan>>

\* mutant: the callback gets the loop index, counted from zero
ProgressCallFromZero(current, total, workerName, fetch) ==
    [current |-> current - 1, total |-> total, workerName |-> workerName, fetch |-> fetch]

\* callback(i+1, totalWorkers, worker.Name); fetch is the state of the
\* worker's GetWorker call at the moment of the callback
ProgressCall(current, total, workerName, fetch) ==
    [current |-> current, total |-> total, workerName |-> workerName, fetch |-> fetch]

\* one iteration of the loop over allWorkers: the progress callback, then
\* GetWorker and the worker's bindings
ScanWorker ==
    /\ apc = "scan"
    /\ scanIdx <= Len(ListedWorkers)
    /\ LET name == ListedWorkers[scanIdx] IN
       \E outcome \in FetchOutcomes :
          /\ progress' = Append(progress, ProgressCall(scanIdx, Len(ListedWorkers),
                                                        name, fetched[name]))
          /\ fetched' = [fetched EXCEPT ![name] = FetchStatus(outcome)]
          /\ resourceMap' =
                IF GetWorkerErr(outcome) # NilError THEN resourceMap
                ELSE IndexBindings(resourceMap, name, GetWorkerBindings(name, outcome))
    /\ scanIdx' = scanIdx + 1
    /\ UNCHANGED <<apc, account, target, resIdx, resources, lookups, aerr, aplan>>

ScanOver == apc = "scan" /\ scanIdx > Len(ListedWorkers)

\* one iteration of the loop over targetWorker.Bindings
BuildEntry ==
    /\ ScanOver
    /\ resIdx <= Len(target.Bindings)
    /\ LET binding == target.Bindings[resIdx]
           key == getResourceKey(binding)
           exists == key \in DOMAIN resourceMap
           usage == IF exists THEN resourceMap[key]
                    ELSE NewUsage(binding, <<target.Name>>)
       IN IF key = NoKey
          THEN UNCHANGED <<resourceMap, resources, lookups>>
          ELSE \E lookupOk \in BOOLEAN :
                 LET entry1 == [usage EXCEPT
                        !.ResourceName = enrichResourceName(binding, usage.ResourceName, lookupOk),
                        !.RiskLevel = calculateRiskLevel(usage.UsedBy, target.Name)]
                 IN /\ NeedsLookup(binding, usage.ResourceName) \/ lookupOk
                    /\ lookups' = IF NeedsLookup(binding, usage.ResourceName)
                                  THEN Append(lookups, lookupOk) ELSE lookups
                    /\ resources' = Append(resources, entry1)
                    \* usage points into the map when the key is tracked
                    /\ resourceMap' = IF exists THEN [resourceMap EXCEPT ![key] = entry1]
                                      ELSE resourceMap
    /\ resIdx' = resIdx + 1
    /\ UNCHANGED <<apc, account, target, scanIdx, fetched, progress, aerr, aplan>>

AnalyzeReturn ==
    /\ ScanOver
    /\ resIdx > Len(target.Bindings)
    /\ apc' = "returned"
    /\ aerr' = NilError
    /\ UNCHANGED <<account, target, scanIdx, fetched, resourceMap, resIdx, resources,
                   lookups, progress, aplan>>

\* the caller builds the plan from a successful analysis
PlanFromAnalysis ==
    /\ apc = "returned"
    /\ aerr = NilError
    /\ \E exclusiveOnly \in BOOLEAN :
          aplan' = CreateDeletionPlan(target, resources, exclusiveOnly)
    /\ apc' = "planned"
    /\ UNCHANGED <<account, target, scanIdx, fetched, resourceMap, resIdx, resources,
                   lookups, progress, aerr>>

\* the ways to cut a list of bindings in three for the three listed workers
CutsOf(bs) ==
    {[w \in Listed |->
         IF w = ListedWorkers[1] THEN SubSeq(bs, 1, c[1])
         ELSE IF w = ListedWorkers[2] THEN SubSeq(bs, c[1] + 1, c[2])
         ELSE SubSeq(bs, c[2] + 1, Len(bs))] :
     c \in {cut \in (0..Len(bs)) \X (0..Len(bs)) : cut[1] <= cut[2]}}

\* the accounts over a catalog that hold at most n bindings
AccountsOf(catalog, n) == UNION {CutsOf(bs) : bs \in SeqsUpTo(catalog, n)}

\* the scanned accounts; the target snapshot holds the target's own bindings
InitAnalyze ==
    /\ account \in AccountsOf(BindingCatalog, MaxBindings)
    /\ target = [Name |-> TargetName, Bindings |-> account[TargetName]]
    /\ apc = "idle" /\ scanIdx = 1 /\ resIdx = 1
    /\ fetched = [w \in Listed |-> "pending"]
    /\ resourceMap = EmptyMap /\ resources = <<>> /\ lookups = <<>>
    /\ progress = <<>>
    /\ aerr = NilError /\ aplan = NoPlan
    /\ DeleterIdle /\ ClassifyIdle /\ TuiIdle /\ TrackerIdle

NextAnalyze ==
    \/ AnalyzeStart /\ UNCHANGED <<dvars, cvars, tvars, pvars>>
    \/ ScanWorker /\ UNCHANGED <<dvars, cvars, tvars, pvars>>
    \/ BuildEntry /\ UNCHANGED <<dvars, cvars, tvars, pvars>>
    \/ AnalyzeReturn /\ UNCHANGED <<dvars, cvars, tvars, pvars>>
    \/ PlanFromAnalysis /\ UNCHANGED <<dvars, cvars, tvars, pvars>>

SpecAnalyze == InitAnalyze /\ [][NextAnalyze]_vars

----------------------------------------------------------------------------
(* Properties of AnalyzeDependencies (specification SpecAnalyze) *)

\* AnalyzeDependencies has returned a list
Analysed == apc \in {"returned", "planned"} /\ aerr = NilError
\* the target's bindings that have a resource key, in order
KeyedTargetBindings == SelectSeq(target.Bindings, LAMBDA b : getResourceKey(b) # NoKey)
\* the other workers the scan read that hold at least one binding to the key
Holders(key) ==
    {w \in Listed \ {target.Name} :
        /\ fetched[w] = "ok"
        /\ \E i \in DOMAIN account[w] : getResourceKey(account[w][i]) = key}

\* C10: the risk level of a resource of the target is the one the analysis
\* would compute if every other worker held a single binding to it: repeated
\* bindings from one worker never raise the level.
C10_RepeatsDoNotRaise ==
    Analysed =>
        /\ Len(resources) = Len(KeyedTargetBindings)
        /\ \A k \in DOMAIN resources :
              resources[k].RiskLevel =
                 TierOf(Cardinality(Holders(getResourceKey(KeyedTargetBindings[k]))))

\* the workers the scan has read that hold a binding with the key
ReadHolders(key) ==
    {w \in Listed :
        /\ fetched[w] = "ok"
        /\ \E i \in DOMAIN account[w] : getResourceKey(account[w][i]) = key}
\* the keys of the bindings of the workers the scan has read
ReadKeys ==
    UNION {{getResourceKey(account[w][i]) : i \in DOMAIN account[w]} :
           w \in {v \in Listed : fetched[v] = "ok"}} \ {NoKey}
\* the names in a list
SeqToSet(q) == {q[i] : i \in DOMAIN q}

\* C16: a worker whose details or bindings the scan cannot obtain is left out
\* and the scan goes on: it is in no reference list, every worker that was
\* read is indexed, every listed worker is visited and the analysis returns
\* its list without error. The analysis returns an error only when the
\* initial listing fails, before any worker is fetched.
C16_FetchFailureSkipsWorker ==
    /\ (ScanOver \/ Analysed) =>
          /\ DOMAIN resourceMap = ReadKeys
          /\ \A k \in DOMAIN resourceMap :
                SeqToSet(resourceMap[k].UsedBy) = ReadHolders(k)
    /\ (\E w \in Listed : fetched[w] = "failed") => aerr = NilError
    /\ (apc \in {"returned", "planned"} /\ aerr = NilError) =>
          /\ \A w \in Listed : fetched[w] # "pending"
          /\ Len(resources) = Len(KeyedTargetBindings)
    /\ aerr # NilError =>
          /\ apc = "returned" /\ resources = <<>>
          /\ \A w \in Listed : fetched[w] = "pending"

\* reports-svc could not be read, audit-svc and the target could: the
\* namespace the three of them bind is listed for the target and audit-svc only
C16_Witness ==
    /\ Analysed
    /\ fetched[OtherNames[1]] = "failed"
    /\ fetched[OtherNames[2]] = "ok" /\ fetched[TargetName] = "ok"
    /\ \A w \in Listed : \E i \in DOMAIN account[w] : account[w][i].NamespaceID = "ns-1"
    /\ "kv:ns-1" \in DOMAIN resourceMap
    /\ SeqToSet(resourceMap["kv:ns-1"].UsedBy) = {TargetName, OtherNames[2]}
    /\ Len(resources) >= 1

\* the positions of the analysed list whose key the index does not hold
Untracked ==
    {k \in DOMAIN resources :
        getResourceKey(KeyedTargetBindings[k]) \notin DOMAIN resourceMap}

\* C17: when the key of a binding of the target is absent from the index, the
\* analysis makes up an entry for it whose reference list is the target alone
\* and whose level is Safe; a plan holds that entry whether it is built with
\* exclusiveOnly or not.
C17_AbsentKeySynthesized ==
    Analysed =>
        \A k \in Untracked :
            /\ resources[k].UsedBy = <<target.Name>>
            /\ resources[k].RiskLevel = RiskLevelSafe
            /\ resources[k].ResourceID = getResourceID(KeyedTargetBindings[k])
            /\ resources[k].ResourceType = KeyedTargetBindings[k].Type
            /\ apc = "planned" =>
                  \E j \in DOMAIN aplan.ResourcesToDelete :
                     aplan.ResourcesToDelete[j] = resources[k]

\* the scan could not read the target, whose database no other worker binds:
\* the exclusive-only plan holds the made-up entry for db-7
C17_Witness ==
    /\ apc = "planned" /\ aplan.DeleteExclusiveOnly
    /\ fetched[TargetName] = "failed"
    /\ Untracked # {}
    /\ \E j \in DOMAIN aplan.ResourcesToDelete :
          /\ aplan.ResourcesToDelete[j].ResourceID = "db-7"
          /\ aplan.ResourcesToDelete[j].UsedBy = <<TargetName>>

\* the name the entry for the binding under the loop has before enrichment
ProvisionalName ==
    LET binding == target.Bindings[resIdx]
        key == getResourceKey(binding)
    IN IF key \in DOMAIN resourceMap THEN resourceMap[key].ResourceName
       ELSE getResourceName(binding)
\* this step made a display-name lookup and it failed
LookupFailedNow ==
    /\ Len(lookups') = Len(lookups) + 1
    /\ lookups'[Len(lookups')] = FALSE

\* C22: a display-name lookup that fails is not an error: the step appends
\* the entry to the result under the name it had before the lookup, the
\* analysis stays free of error and goes on, it returns one entry per keyed
\* binding of the target, and the plan holds every entry the exclusive-only
\* filter does not drop.
C22_LookupFailureKeepsName ==
    /\ [][LookupFailedNow =>
            /\ Len(resources') = Len(resources) + 1
            /\ resources'[Len(resources')].ResourceName = ProvisionalName
            /\ resources'[Len(resources')].ResourceID =
                  getResourceID(target.Bindings[resIdx])
            /\ aerr' = NilError /\ apc' = apc /\ resIdx' = resIdx + 1]_vars
    /\ [](((\E i \in DOMAIN lookups : ~lookups[i]) /\ apc \in {"returned", "planned"}) =>
            /\ aerr = NilError
            /\ Len(resources) = Len(KeyedTargetBindings)
            /\ apc = "planned" =>
                  aplan.ResourcesToDelete =
                     SelectSeq(resources, LAMBDA r :
                        ~aplan.DeleteExclusiveOnly \/ r.RiskLevel = RiskLevelSafe))

\* the lookup of the title of ns-1 failed: the plan lists the namespace under
\* the local binding name
C22_Witness ==
    /\ apc = "planned"
    /\ lookups = <<FALSE>>
    /\ Len(aplan.ResourcesToDelete) = 1
    /\ aplan.ResourcesToDelete[1].ResourceID = "ns-1"
    /\ aplan.ResourcesToDelete[1].ResourceName = "CACHE"

----------------------------------------------------------------------------
(* AnalyzeDependencies on accounts that hold bindings of every kind
   (specification SpecKinds) *)

\* bindings of kinds with and without a resource key; two of them share the
\* namespace under different local names, two share the local name and differ
\* in the namespace, two share both strings and differ in kind
KindCatalog ==
    {Binding(BindingTypeKV, "CACHE", "ns-1"),
     Binding(BindingTypeKV, "SESSIONS", "ns-1"),
     Binding(BindingTypeKV, "CACHE", "ns-2"),
     Binding(BindingTypeR2, "CACHE", "ns-1"),
     Binding(BindingTypeDurableObject, "COUNTER", "Counter"),
     Binding(BindingTypeService, "AUTH", ""),
     Binding(BindingTypeEnvVar, "API_URL", ""),
     Binding(BindingTypeSecret, "API_KEY", ""),
     Binding(BindingTypeHyperdrive, "HYPERDRIVE", "hd-1")}

InitKinds ==
    /\ account \in AccountsOf(KindCatalog, MaxKindBindings)
    /\ target = [Name |-> TargetName, Bindings |-> account[TargetName]]
    /\ apc = "idle" /\ scanIdx = 1 /\ resIdx = 1
    /\ fetched = [w \in Listed |-> "pending"]
    /\ resourceMap = EmptyMap /\ resources = <<>> /\ lookups = <<>>
    /\ progress = <<>>
    /\ aerr = NilError /\ aplan = NoPlan
    /\ DeleterIdle /\ ClassifyIdle /\ TuiIdle /\ TrackerIdle

SpecKinds == InitKinds /\ [][NextAnalyze]_vars

\* the scan is over: the index is complete
Indexed == ScanOver \/ Analysed

\* the field(s) that identify the resource behind a binding of each kind
IdentifyingFields(b) ==
    CASE b.Type = BindingTypeKV -> <<b.NamespaceID>>
      [] b.Type = BindingTypeR2 -> <<b.BucketName>>
      [] b.Type = BindingTypeD1 -> <<b.DatabaseID>>
      [] b.Type = BindingTypeDurableObject -> <<b.ClassName, b.ScriptName>>
      [] b.Type = BindingTypeService -> <<b.ScriptName>>
      [] b.Type = BindingTypeQueue -> <<b.QueueName>>
      [] OTHER -> <<>>
SameResource(b1, b2) ==
    b1.Type = b2.Type /\ IdentifyingFields(b1) = IdentifyingFields(b2)

\* the bindings with a key that the scan has read, as <<worker, position>>
ReadBindings ==
    {p \in UNION {{w} \X DOMAIN account[w] : w \in Listed} :
        /\ fetched[p[1]] = "ok"
        /\ getResourceKey(account[p[1]][p[2]]) # NoKey}
BindingAt(p) == account[p[1]][p[2]]

\* C11: the resource key depends on the binding kind and its identifying
\* fields only. Two bindings the scan has read have the same key exactly when
\* they agree on kind and identifying fields, whatever their local names and
\* their workers; the index holds one entry per such resource, and the entry's
\* reference list names exactly the read workers that hold a binding to it.
C11_KeyByKindAndFields ==
    Indexed =>
        /\ \A p, q \in ReadBindings :
              (getResourceKey(BindingAt(p)) = getResourceKey(BindingAt(q)))
                 <=> SameResource(BindingAt(p), BindingAt(q))
        /\ DOMAIN resourceMap = {getResourceKey(BindingAt(p)) : p \in ReadBindings}
        /\ \A p \in ReadBindings :
              SeqToSet(resourceMap[getResourceKey(BindingAt(p))].UsedBy) =
                 {q[1] : q \in {r \in ReadBindings :
                                   SameResource(BindingAt(r), BindingAt(p))}}

\* two workers hold the namespace ns-1 under different local names and the
\* index has the single entry kv:ns-1 that names both
C11_Witness ==
    /\ Indexed
    /\ \E v, w \in Listed :
          /\ v # w
          /\ fetched[v] = "ok" /\ fetched[w] = "ok"
          /\ account[v] = <<Binding(BindingTypeKV, "CACHE", "ns-1")>>
          /\ account[w] = <<Binding(BindingTypeKV, "SESSIONS", "ns-1")>>
          /\ DOMAIN resourceMap = {"kv:ns-1"}
          /\ SeqToSet(resourceMap["kv:ns-1"].UsedBy) = {v, w}

\* the kinds of the entries of a resource list
TypesIn(rs) == {rs[i].ResourceType : i \in DOMAIN rs}
\* the kinds of the entries of the index
IndexedTypes == {resourceMap[k].ResourceType : k \in DOMAIN resourceMap}
\* the kinds without an addressable backing resource, and the value kinds among them
UnbackedKinds == {BindingTypeDurableObject, BindingTypeService,
                  BindingTypeEnvVar, BindingTypeSecret}
ValueKinds == {BindingTypeEnvVar, BindingTypeSecret}

\* C12 (as claimed): bindings of kinds with no addressable backing resource
\* (durable-object classes, service links, plain text, secrets) never produce
\* a resource key: no entry of the index, of the analysis result or of a plan
\* is of such a kind.
C12_NoKeyForUnbacked ==
    /\ IndexedTypes \cap UnbackedKinds = {}
    /\ TypesIn(resources) \cap UnbackedKinds = {}
    /\ TypesIn(aplan.ResourcesToDelete) \cap UnbackedKinds = {}

\* C12 (amended): plain text and secret bindings never produce a resource key
\* and appear in no entry of the index, the result or a plan; durable-object
\* and service bindings do produce one: those of the read workers are indexed
\* with their worker, those of the target are in the result, and in the plan
\* unless the exclusive-only filter drops them.
C12_OnlyValuesUnkeyed ==
    /\ IndexedTypes \cap ValueKinds = {}
    /\ TypesIn(resources) \cap ValueKinds = {}
    /\ TypesIn(aplan.ResourcesToDelete) \cap ValueKinds = {}
    /\ Indexed =>
          \A w \in Listed : \A i \in DOMAIN account[w] :
             (fetched[w] = "ok" /\ account[w][i].Type \in UnbackedKinds \ ValueKinds)
                => /\ getResourceKey(account[w][i]) \in DOMAIN resourceMap
                   /\ w \in SeqToSet(resourceMap[getResourceKey(account[w][i])].UsedBy)
    /\ Analysed =>
          \A i \in DOMAIN target.Bindings :
             target.Bindings[i].Type \in UnbackedKinds \ ValueKinds
                => target.Bindings[i].Type \in TypesIn(resources)
    /\ apc = "planned" =>
          \A k \in DOMAIN resources :
             (resources[k].ResourceType \in UnbackedKinds \ ValueKinds
                /\ ~(aplan.DeleteExclusiveOnly /\ resources[k].RiskLevel # RiskLevelSafe))
                => resources[k].ResourceType \in TypesIn(aplan.ResourcesToDelete)

\* the target holds a secret and a durable-object binding: the plan holds the
\* durable-object class and nothing else
C12_Witness ==
    /\ apc = "planned"
    /\ fetched[TargetName] = "ok"
    /\ target.Bindings = <<Binding(BindingTypeSecret, "API_KEY", ""),
                           Binding(BindingTypeDurableObject, "COUNTER", "Counter")>>
    /\ TypesIn(aplan.ResourcesToDelete) = {BindingTypeDurableObject}
    /\ Len(aplan.ResourcesToDelete) = 1
    /\ "do:Counter:auth-svc" \in DOMAIN resourceMap

----------------------------------------------------------------------------
(* CreateDeletionPlan on any resource list (specification SpecPlan) *)

\* a caller holds a resource list for the target and asks for a plan
InitPlan ==
    /\ resources \in SeqsUpTo(PlanEntries, MaxPlanLen)
    /\ target = TargetWorkerInfo
    /\ apc = "returned" /\ aerr = NilError /\ aplan = NoPlan
    /\ account = EmptyMap /\ fetched = EmptyMap /\ resourceMap = EmptyMap
    /\ scanIdx = 1 /\ resIdx = 1 /\ lookups = <<>> /\ progress = <<>>
    /\ DeleterIdle /\ ClassifyIdle /\ TuiIdle /\ TrackerIdle

\* the caller builds the plan once more from the same worker, list and flag
RebuildPlan ==
    /\ apc = "planned"
    /\ aplan' = CreateDeletionPlan(target, resources, aplan.DeleteExclusiveOnly)
    /\ apc' = "replanned"
    /\ UNCHANGED <<account, target, scanIdx, fetched, resourceMap, resIdx, resources,
                   lookups, progress, aerr>>

NextPlan ==
    \/ PlanFromAnalysis /\ UNCHANGED <<dvars, cvars, tvars, pvars>>
    \/ RebuildPlan /\ UNCHANGED <<dvars, cvars, tvars, pvars>>

SpecPlan == InitPlan /\ [][NextPlan]_vars

\* the positions of the entries of a resource list that are above Safe
SharedIn(rs) == {i \in DOMAIN rs : rs[i].RiskLevel # RiskLevelSafe}

\* C13: a plan built with exclusiveOnly = true holds no entry above Safe,
\* whatever the resource list it was built from.
C13_ExclusiveAllSafe ==
    (apc = "planned" /\ aplan.DeleteExclusiveOnly)
        => SharedIn(aplan.ResourcesToDelete) = {}

\* an exclusive-only plan built from a list with a shared and a Safe entry
C13_Witness ==
    /\ apc = "planned" /\ aplan.DeleteExclusiveOnly
    /\ SharedIn(resources) # {}
    /\ Len(aplan.ResourcesToDelete) = 1
    /\ Len(resources) = 2

\* C14: HasSharedResources of a plan is true exactly when an entry included
\* in its ResourcesToDelete is above Safe; it is false for every plan built
\* with exclusiveOnly = true.
C14_FlagIffIncludedShared ==
    apc = "planned" =>
        /\ aplan.HasSharedResources <=> SharedIn(aplan.ResourcesToDelete) # {}
        /\ aplan.DeleteExclusiveOnly => ~aplan.HasSharedResources

----------------------------------------------------------------------------
(* From the analysis to the deletion, on the account of the billing-svc
   scenario (specification SpecScenario) *)

\* billing-svc binds the namespace ns-1 and the database db-7, reports-svc
\* binds ns-1 as well, audit-svc binds nothing
ScenarioAccount ==
    [w \in Listed |->
        IF w = TargetName
        THEN <<Binding(BindingTypeKV, "SESSIONS", "ns-1"), Binding(BindingTypeD1, "DB", "db-7")>>
        ELSE IF w = OtherNames[1] THEN <<Binding(BindingTypeKV, "CACHE", "ns-1")>>
        ELSE <<>>]

InitScenario ==
    /\ account = ScenarioAccount
    /\ target = [Name |-> TargetName, Bindings |-> account[TargetName]]
    /\ apc = "idle" /\ scanIdx = 1 /\ resIdx = 1
    /\ fetched = [w \in Listed |-> "pending"]
    /\ resourceMap = EmptyMap /\ resources = <<>> /\ lookups = <<>>
    /\ progress = <<>>
    /\ aerr = NilError /\ aplan = NoPlan
    /\ entry = "none" /\ pc = "idle" /\ dryRun \in BOOLEAN /\ config = NoConfig
    /\ plan = NoPlan /\ idx = 1 /\ result = NoResult /\ retErr = NilError
    /\ exitCode = 0 /\ calls = <<>>
    /\ ClassifyIdle /\ TuiIdle /\ TrackerIdle

\* the caller sets DeleteShared on the plan it built and hands it to Execute
ExecutePlanned ==
    /\ pc = "idle"
    /\ apc = "planned"
    /\ entry' = "Execute"
    /\ \E shared \in BOOLEAN :
          ExecuteEnter(dryRun, [aplan EXCEPT !.DeleteShared = shared])
    /\ UNCHANGED <<dryRun, config, exitCode, calls>>

NextScenario ==
    \/ NextAnalyze
    \/ ExecutePlanned /\ UNCHANGED <<cvars, avars, tvars, pvars>>
    \/ ExecuteDeleteWorker /\ UNCHANGED <<cvars, avars, tvars, pvars>>
    \/ ExecuteResource /\ UNCHANGED <<cvars, avars, tvars, pvars>>
    \/ ExecuteReturn /\ UNCHANGED <<cvars, avars, tvars, pvars>>

SpecScenario == InitScenario /\ [][NextScenario]_vars

\* the scan has read every listed worker
AllFetched == \A w \in Listed : fetched[w] = "ok"
\* the resource ids and the risk levels of a resource list, in order
IDsOf(rs) == [i \in DOMAIN rs |-> rs[i].ResourceID]
LevelsOf(rs) == [i \in DOMAIN rs |-> rs[i].RiskLevel]
\* every remote call made so far answered ok
AllCallsOk == \A i \in DOMAIN calls : calls[i].outcome = "ok"

\* C15: a plan built with exclusiveOnly = false holds exactly the analysed
\* list of the target, in order; one built with exclusiveOnly = true holds
\* exactly its Safe entries, in order. In the billing-svc scenario (ns-1 read
\* from billing-svc and reports-svc, db-7 from billing-svc alone) ns-1 is
\* Caution and db-7 is Safe, the non-exclusive plan holds both, the exclusive
\* plan holds db-7 only, and when the non-exclusive plan is executed with
\* DeleteShared = true and every remote call succeeds, both are deleted.
C15_PlanFromAnalysis ==
    /\ apc = "planned" =>
          aplan.ResourcesToDelete =
             IF aplan.DeleteExclusiveOnly
             THEN SelectSeq(resources, LAMBDA r : r.RiskLevel = RiskLevelSafe)
             ELSE resources
    /\ (account = ScenarioAccount /\ AllFetched /\ Analysed) =>
          /\ IDsOf(resources) = <<"ns-1", "db-7">>
          /\ LevelsOf(resources) = <<RiskLevelCaution, RiskLevelSafe>>
          /\ apc = "planned" =>
                IDsOf(aplan.ResourcesToDelete) =
                   IF aplan.DeleteExclusiveOnly THEN <<"db-7">> ELSE <<"ns-1", "db-7">>
          /\ (pc = "returned" /\ ~dryRun /\ ~plan.DeleteExclusiveOnly
                 /\ plan.DeleteShared /\ AllCallsOk) =>
                /\ result.Success /\ result.WorkerDeleted
                /\ result.ResourcesDeleted = ResourceNames(resources)
                /\ result.ResourcesSkipped = <<>>
                /\ calls = <<Call("DeleteWorker", TargetName, "ok"),
                             Call("DeleteKVNamespace", "ns-1", "ok"),
                             Call("DeleteD1Database", "db-7", "ok")>>

\* the scenario, analysed in full, planned without exclusive-only and executed
\* with DeleteShared: the worker, ns-1 and db-7 are gone
C15_Witness ==
    /\ account = ScenarioAccount /\ AllFetched
    /\ pc = "returned" /\ ~dryRun
    /\ ~plan.DeleteExclusiveOnly /\ plan.DeleteShared
    /\ Len(calls) = 3 /\ AllCallsOk
    /\ Len(result.ResourcesDeleted) = 2

----------------------------------------------------------------------------
(* internal/ui/models: the interactive session *)

stateLoading == "Loading"
stateConfirmDependencyCheck == "ConfirmDependencyCheck"
stateAnalyzing == "Analyzing"
stateShowPlan == "ShowPlan"
stateConfirmDeletion == "ConfirmDeletion"
stateConfirmShared == "ConfirmShared"
stateDeleting == "Deleting"
stateComplete == "Complete"
stateError == "Error"
SessionStates == {stateLoading, stateConfirmDependencyCheck, stateAnalyzing, stateShowPlan,
                  stateConfirmDeletion, stateConfirmShared, stateDeleting, stateComplete,
                  stateError}

\* msg.String() of the keys the handlers tell apart, and one other key
Keys == {"ctrl+c", "q", "esc", "n", "N", "y", "Y", "enter", "x"}

\* the keys by what the prompts say they mean
KeyKind(key) ==
    IF key \in {"y", "Y", "enter"} THEN "yes"
    ELSE IF key \in {"n", "N"} THEN "no"
    ELSE IF key \in {"ctrl+c", "q", "esc"} THEN "abort"
    ELSE "other"

\* what a key handler decides: "quit" (tea.Quit), "stay" (nothing), the
\* sessionState to move to, or one of the ways to start a command
handleConfirmDependencyCheckKeyPress(key) ==
    IF key \in {"ctrl+c", "q", "esc"} THEN "quit"
    ELSE IF key \in {"n", "N"} THEN "analyzeTargetOnly"
    ELSE IF key \in {"y", "Y", "enter"} THEN "analyzeAll"
    ELSE "stay"

\* mutant: the plan prompt starts the deletion whatever AutoYes says
handlePlanKeyPressNoConfirm(key, c) ==
    IF key \in {"ctrl+c", "q", "esc", "n", "N"} THEN "quit"
    ELSE IF key \in {"y", "Y", "enter"} THEN "startDeletion"
    ELSE "stay"

handlePlanKeyPress(key, c) ==
    IF key \in {"ctrl+c", "q", "esc", "n", "N"} THEN "quit"
    ELSE IF key \in {"y", "Y", "enter"}
         THEN IF c.AutoYes THEN "startDeletion" ELSE stateConfirmDeletion
    ELSE "stay"

\* mutant: the shared-resources prompt is shown whatever ExclusiveOnly says
handleConfirmDeletionKeyPressAlwaysAsks(key, p, c) ==
    IF key \in {"ctrl+c", "q", "esc", "n", "N"} THEN "quit"
    ELSE IF key \in {"y", "Y", "enter"}
         THEN IF p.HasSharedResources THEN stateConfirmShared ELSE "startDeletion"
    ELSE "stay"

handleConfirmDeletionKeyPress(key, p, c) ==
    IF key \in {"ctrl+c", "q", "esc", "n", "N"} THEN "quit"
    ELSE IF key \in {"y", "Y", "enter"}
         THEN IF p.HasSharedResources /\ ~c.ExclusiveOnly THEN stateConfirmShared
              ELSE "startDeletion"
    ELSE "stay"

\* mutant: n and N cancel the session like esc
handleConfirmSharedKeyPressNoCancels(key) ==
    IF key \in {"ctrl+c", "q", "esc", "n", "N"} THEN "quit"
    ELSE IF key \in {"y", "Y", "enter"} THEN "startDeletionShared"
    ELSE "stay"

handleConfirmSharedKeyPress(key) ==
    IF key \in {"ctrl+c", "q", "esc"} THEN "quit"
    ELSE IF key \in {"n", "N"} THEN "startDeletionSkipShared"
    ELSE IF key \in {"y", "Y", "enter"} THEN "startDeletionShared"
    ELSE "stay"

\* Don't handle keys while deleting or analyzing
\* mutant: while deleting, keys go to the shared-resources prompt again
handleKeyPressPromptsAgain(st, key, p, c) ==
    IF st = stateAnalyzing THEN "stay"
    ELSE IF st = stateConfirmDependencyCheck THEN handleConfirmDependencyCheckKeyPress(key)
    ELSE IF st = stateShowPlan THEN handlePlanKeyPress(key, c)
    ELSE IF st = stateConfirmDeletion THEN handleConfirmDeletionKeyPress(key, p, c)
    ELSE IF st \in {stateConfirmShared, stateDeleting} THEN handleConfirmSharedKeyPress(key)
    ELSE IF key \in {"ctrl+c", "q"} THEN "quit"
    ELSE "stay"

\* mutant: keys are handled while deleting or analyzing too
handleKeyPressAbortable(st, key, p, c) ==
    IF st = stateConfirmDependencyCheck THEN handleConfirmDependencyCheckKeyPress(key)
    ELSE IF st = stateShowPlan THEN handlePlanKeyPress(key, c)
    ELSE IF st = stateConfirmDeletion THEN handleConfirmDeletionKeyPress(key, p, c)
    ELSE IF st = stateConfirmShared THEN handleConfirmSharedKeyPress(key)
    ELSE IF key \in {"ctrl+c", "q"} THEN "quit"
    ELSE "stay"

handleKeyPress(st, key, p, c) ==
    IF st = stateDeleting \/ st = stateAnalyzing THEN "stay"
    ELSE IF st = stateConfirmDependencyCheck THEN handleConfirmDependencyCheckKeyPress(key)
    ELSE IF st = stateShowPlan THEN handlePlanKeyPress(key, c)
    ELSE IF st = stateConfirmDeletion THEN handleConfirmDeletionKeyPress(key, p, c)
    ELSE IF st = stateConfirmShared THEN handleConfirmSharedKeyPress(key)
    ELSE IF key \in {"ctrl+c", "q"} THEN "quit"
    ELSE "stay"

StartsDeletion == {"startDeletion", "startDeletionSkipShared", "startDeletionShared"}
StartsAnalysis == {"analyzeTargetOnly", "analyzeAll"}

\* the plan startDeletion hands to Execute
PlanToExecute(p, decision) ==
    IF decision = "startDeletionSkipShared" THEN [p EXCEPT !.DeleteShared = FALSE]
    ELSE IF decision = "startDeletionShared" THEN [p EXCEPT !.DeleteShared = TRUE]
    ELSE p

\* Update on a tea.KeyMsg
KeyPress ==
    /\ state \in SessionStates
    /\ ~quit
    /\ \E key \in Keys :
          LET decision == handleKeyPress(state, key, mplan, config) IN
          /\ keyed' = [keyed EXCEPT ![state] = KeyKind(key)]
          /\ quit' = (decision = "quit")
          /\ state' = IF decision \in SessionStates THEN decision
                       ELSE IF decision \in StartsAnalysis THEN stateAnalyzing
                       ELSE IF decision \in StartsDeletion THEN stateDeleting
                       ELSE state
          /\ skipDependencyCheck' = IF decision \in StartsAnalysis
                                     THEN decision = "analyzeTargetOnly"
                                     ELSE skipDependencyCheck
          /\ skipShared' = (skipShared \/ decision = "startDeletionSkipShared")
          /\ mplan' = PlanToExecute(mplan, decision)
          /\ IF decision \in StartsDeletion
             THEN \* startDeletion: Execute runs in the background
                  /\ entry' = "Execute"
                  /\ ExecuteEnter(dryRun, PlanToExecute(mplan, decision))
                  /\ UNCHANGED <<dryRun, config, exitCode, calls>>
             ELSE UNCHANGED dvars
    /\ UNCHANGED <<mResult, mErr>>

\* entries of the lists the session's analysis returns: a kind with a remote
\* store and a kind without one, at every risk level
SessionEntries ==
    {ResourceOfType(t, r) : t \in {BindingTypeKV, BindingTypeDurableObject}, r \in RiskLevels}

\* the runAnalysis command ends and Update gets analysisCompleteMsg or
\* analysisErrorMsg; the list is any AnalyzeDependencies can return
AnalysisDone ==
    /\ state = stateAnalyzing
    /\ ~quit
    /\ \/ /\ state' = stateError
          /\ mErr' = Errorf("failed to list workers", <<"failed to list workers">>)
          /\ quit' = TRUE
          /\ UNCHANGED mplan
       \/ /\ \E rs \in SeqsUpTo(SessionEntries, MaxAnalysed) :
                mplan' = CreateDeletionPlan(TargetWorkerInfo, rs, config.ExclusiveOnly)
          /\ state' = stateShowPlan
          /\ UNCHANGED <<mErr, quit>>
    /\ UNCHANGED <<mResult, skipDependencyCheck, skipShared, keyed>>
    /\ UNCHANGED dvars

\* the background Execute has returned and Update gets deletionCompleteMsg or
\* deletionErrorMsg
DeletionDone ==
    /\ state = stateDeleting
    /\ ~quit
    /\ entry = "Execute" /\ pc = "returned"
    /\ IF retErr # NilError
       THEN state' = stateError /\ mErr' = retErr /\ UNCHANGED mResult
       ELSE state' = stateComplete /\ mResult' = result /\ UNCHANGED mErr
    /\ quit' = TRUE
    /\ UNCHANGED <<mplan, skipDependencyCheck, skipShared, keyed>>
    /\ UNCHANGED dvars

\* run starts the session when no flag bypasses it: NewModelWithAnalysis
InitSession ==
    /\ config \in {c \in Configs : IsInteractive(c)}
    /\ state = stateConfirmDependencyCheck
    /\ mplan = NoPlan /\ mResult = NoResult /\ mErr = NilError
    /\ skipDependencyCheck = FALSE /\ skipShared = FALSE /\ quit = FALSE
    /\ keyed = [st \in SessionStates |-> ""]
    /\ entry = "none" /\ pc = "idle" /\ dryRun = FALSE
    /\ plan = NoPlan /\ idx = 1 /\ result = NoResult /\ retErr = NilError
    /\ exitCode = 0 /\ calls = <<>>
    /\ ClassifyIdle /\ AnalyzeIdle /\ TrackerIdle

NextSession ==
    \/ KeyPress /\ UNCHANGED <<cvars, avars, pvars>>
    \/ AnalysisDone /\ UNCHANGED <<cvars, avars, pvars>>
    \/ DeletionDone /\ UNCHANGED <<cvars, avars, pvars>>
    \/ ExecuteDeleteWorker /\ UNCHANGED <<cvars, avars, tvars, pvars>>
    \/ ExecuteResource /\ UNCHANGED <<cvars, avars, tvars, pvars>>
    \/ ExecuteReturn /\ UNCHANGED <<cvars, avars, tvars, pvars>>

SpecSession == InitSession /\ [][NextSession]_vars

\* a step of the goroutine startDeletion's command runs Execute in
ExecuteStep ==
    (ExecuteDeleteWorker \/ ExecuteResource \/ ExecuteReturn) /\ UNCHANGED <<cvars, avars, tvars, pvars>>

\* the session with its scheduling: the goroutines running the analysis and
\* Execute keep running, every remote call returns, and the message each
\* command produces is delivered to Update
SpecSessionLive ==
    /\ SpecSession
    /\ WF_vars(AnalysisDone /\ UNCHANGED <<cvars, avars, pvars>>)
    /\ WF_vars(ExecuteStep)
    /\ WF_vars(DeletionDone /\ UNCHANGED <<cvars, avars, pvars>>)

----------------------------------------------------------------------------
(* Properties of the interactive session (specification SpecSession) *)

\* the session has started the deleter
DeletionStarted == entry = "Execute" \/ state \in {stateDeleting, stateComplete}
\* this step handles a key of the given kinds pressed in the given state
KeyStepIn(st, kinds) == state = st /\ keyed' # keyed /\ keyed'[st] \in kinds

\* C23: with AutoYes off, Execute is never started without the confirmations
\* of the user: when the deleter has been started, or a remote delete call was
\* made, the last key in the show-plan state and the last key in the
\* confirm-deletion state were y, Y or enter; and any of ctrl+c, q, esc, n, N
\* in one of these two states ends the session there, with no call made.
C23_ConfirmedBeforeDeleting ==
    /\ []((~config.AutoYes /\ (DeletionStarted \/ calls # <<>>)) =>
            /\ keyed[stateShowPlan] = "yes"
            /\ keyed[stateConfirmDeletion] = "yes")
    /\ [][(~config.AutoYes /\ (\/ KeyStepIn(stateShowPlan, {"abort", "no"})
                                \/ KeyStepIn(stateConfirmDeletion, {"abort", "no"}))) =>
              /\ quit' /\ state' = state
              /\ entry' = "none" /\ calls' = <<>>]_vars
    /\ []((quit /\ ~DeletionStarted) => calls = <<>>)

\* the user said yes twice and the deletion ran
C23_Witness ==
    /\ state = stateComplete /\ quit
    /\ ~config.AutoYes
    /\ keyed[stateShowPlan] = "yes" /\ keyed[stateConfirmDeletion] = "yes"
    /\ Len(calls) = 2

\* C24: a resource above Safe is passed to a remote delete call only after
\* the user answered y, Y or enter in the confirm-shared state. When the plan
\* has shared resources and exclusive-only is off, the deleter is started only
\* after the confirm-shared state was answered; with exclusive-only on that
\* state is never entered and DeleteShared stays false.
C24_SharedNeedsYes ==
    /\ [][(pc = "resources" /\ Len(calls') > Len(calls)) =>
              (\/ Planned[idx].RiskLevel = RiskLevelSafe
               \/ keyed[stateConfirmShared] = "yes")]_vars
    /\ []((DeletionStarted /\ mplan.HasSharedResources /\ ~config.ExclusiveOnly) =>
            keyed[stateConfirmShared] \in {"yes", "no"})
    /\ [](config.ExclusiveOnly =>
            /\ state # stateConfirmShared
            /\ keyed[stateConfirmShared] = ""
            /\ ~mplan.DeleteShared /\ ~plan.DeleteShared)

\* the user accepted the deletion of a shared namespace and its delete call
\* was made
C24_Witness ==
    /\ state = stateComplete
    /\ keyed[stateConfirmShared] = "yes"
    /\ Len(Planned) = 1 /\ Planned[1].RiskLevel = RiskLevelCaution
    /\ Len(calls) = 2 /\ calls[2].op = "DeleteKVNamespace"

\* C25: in the deleting and analyzing states a key press, ctrl+c and q
\* included, changes nothing of the session and starts nothing; the session
\* ends after a deletion only once Execute has returned and its outcome is in
\* Result or Err; and a deletion in flight always gets there.
C25_NoAbortInFlight ==
    /\ [][(state \in {stateDeleting, stateAnalyzing} /\ keyed' # keyed) =>
              UNCHANGED <<state, mplan, mResult, mErr, skipDependencyCheck,
                          skipShared, quit, dvars>>]_vars
    /\ []((quit /\ entry = "Execute") =>
            /\ pc = "returned"
            /\ \/ state = stateComplete /\ mResult = result /\ mResult # NoResult
               \/ state = stateError /\ mErr = retErr /\ mErr # NilError)
    /\ ((state = stateDeleting) ~> (quit /\ state \in {stateComplete, stateError}))

\* ctrl+c or q was pressed while deleting, and the deletion completed
C25_Witness ==
    /\ state = stateComplete /\ quit
    /\ keyed[stateDeleting] = "abort"
    /\ mResult = result /\ Len(calls) = 2

----------------------------------------------------------------------------
(* Properties of the command's non-interactive path and of the executor's
   accounting (specification Spec) *)

\* run has handed its plan to Execute
RunExecuted == entry = "run" /\ result # NoResult

\* C26: on the non-interactive path the plan run hands to Execute has
\* DeleteShared true exactly when exclusive-only is off and force or yes is
\* set; with exclusive-only on, no resource above Safe is passed to a remote
\* delete call, whatever force and yes say.
C26_RunDeleteShared ==
    /\ [](RunExecuted =>
            (plan.DeleteShared <=>
               (~config.ExclusiveOnly /\ (config.Force \/ config.AutoYes))))
    /\ [][(entry = "run" /\ config.ExclusiveOnly /\ Len(calls') > Len(calls)
             /\ pc = "resources") =>
               Planned[idx].RiskLevel = RiskLevelSafe]_vars
    /\ []((entry = "run" /\ config.ExclusiveOnly) =>
            \A i \in DOMAIN Planned : Planned[i].RiskLevel = RiskLevelSafe)

\* --force with --exclusive-only: the run made the delete call of its one
\* exclusive resource and DeleteShared stayed false
C26_Witness ==
    /\ entry = "run" /\ pc = "exited" /\ RunExecuted
    /\ config.Force /\ config.ExclusiveOnly /\ ~plan.DeleteShared
    /\ Len(calls) = 2 /\ calls[2].op = "DeleteKVNamespace"

\* the positions of the plan in the given set, in plan order
PositionsIn(S) == SelectSeq(Positions, LAMBDA i : i \in S)

\* C27: when a real-mode Execute whose worker deletion succeeded has returned,
\* the plan's positions split into two sets such that ResourcesDeleted is the
\* names at the first and ResourcesSkipped the names at the second, each in
\* plan order; so the two lengths add up to the plan's length; and Errors is
\* no longer than ResourcesSkipped.
C27_EveryEntryAccounted ==
    (RealReturned /\ WorkerCallOk) =>
        /\ \E S \in SUBSET (1..Len(Planned)) :
              /\ result.ResourcesDeleted = NamesAt(PositionsIn(S))
              /\ result.ResourcesSkipped = NamesAt(PositionsIn((1..Len(Planned)) \ S))
        /\ Len(result.ResourcesDeleted) + Len(result.ResourcesSkipped) = Len(Planned)
        /\ Len(result.Errors) <= Len(result.ResourcesSkipped)

\* a plan of two: one deleted, one skipped after its call failed
C27_Witness ==
    /\ RealReturned /\ WorkerCallOk
    /\ Len(Planned) = 2
    /\ Len(result.ResourcesDeleted) = 1 /\ Len(result.ResourcesSkipped) = 1
    /\ Len(result.Errors) = 1

----------------------------------------------------------------------------
(* Properties of the analysis result (specifications SpecAnalyze, SpecKinds) *)

\* the resource an analysed entry stands for
EntryKey(r) == <<r.ResourceType, r.ResourceID>>
\* no two positions of the list stand for the same resource
OnePerKey(rs) == \A i, j \in DOMAIN rs : EntryKey(rs[i]) = EntryKey(rs[j]) => i = j

\* C28: the list AnalyzeDependencies returns, and the plan built from it, hold
\* at most one entry per resource, also when the target has several bindings
\* to the same resource.
C28_OneEntryPerResource ==
    /\ Analysed => OnePerKey(resources)
    /\ aplan # NoPlan => OnePerKey(aplan.ResourcesToDelete)

----------------------------------------------------------------------------
(* The dry-run as a preview of the real run (specification Spec) *)

\* C29: when a real-mode Execute has returned and every remote call it made
\* succeeded, its ResourcesDeleted is the list a dry-run Execute of the same
\* plan reports, also for plans that hold shared resources with DeleteShared
\* false.
C29_DryRunIsFaithfulPreview ==
    (RealReturned /\ AllCallsOk) =>
        result.ResourcesDeleted = DryRunResult(plan).ResourcesDeleted

----------------------------------------------------------------------------
(* What analysis hands to the executor (specification SpecKinds) *)

\* the kinds getResourceKey gives no key
UnkeyedKinds == {BindingTypeHyperdrive, BindingTypeVectorize, BindingTypeEnvVar,
                 BindingTypeSecret, BindingTypeMTLS}
\* deleteResource has a case for the entry: with the remote call answering ok
\* it returns no error
Supported(r) == deleteResource(r, "ok") = NilError

\* C30: every entry of the analysis result and of the plan built from it is
\* of a kind deleteResource has a case for, so Execute records no "unsupported
\* resource type" error for it; no entry is of a kind without a resource key.
C30_PlanEntriesSupported ==
    /\ \A i \in DOMAIN resources : Supported(resources[i])
    /\ \A i \in DOMAIN aplan.ResourcesToDelete : Supported(aplan.ResourcesToDelete[i])
    /\ TypesIn(resources) \cap UnkeyedKinds = {}
    /\ TypesIn(aplan.ResourcesToDelete) \cap UnkeyedKinds = {}

\* the target binds a hyperdrive configuration and a KV namespace: the plan
\* holds the namespace alone
C30_Witness ==
    /\ apc = "planned"
    /\ fetched[TargetName] = "ok"
    /\ target.Bindings = <<Binding(BindingTypeHyperdrive, "HYPERDRIVE", "hd-1"),
                           Binding(BindingTypeKV, "CACHE", "ns-1")>>
    /\ TypesIn(aplan.ResourcesToDelete) = {BindingTypeKV}
    /\ Len(aplan.ResourcesToDelete) = 1

----------------------------------------------------------------------------
(* The display name of a namespace (specification SpecAnalyze) *)

\* the local names under which the target binds the resource of binding b
TargetNamesFor(b) ==
    {target.Bindings[j].Name : j \in {k \in DOMAIN target.Bindings :
                                       getResourceKey(target.Bindings[k]) = getResourceKey(b)}}

\* C31: the name AnalyzeDependencies reports for a key-value namespace of the
\* target is the looked-up title or a provisional name of the target itself,
\* whatever the listing order and whatever local names the other workers use
\* for the namespace.
C31_NameFromTargetOnly ==
    Analysed =>
        \A i \in DOMAIN resources :
           KeyedTargetBindings[i].Type = BindingTypeKV =>
              resources[i].ResourceName \in
                 {RemoteTitle(KeyedTargetBindings[i].NamespaceID)}
                    \cup TargetNamesFor(KeyedTargetBindings[i])

----------------------------------------------------------------------------
(* The progress callback of the scan (specification SpecAnalyze) *)

\* C32 (as claimed): the progress callback is invoked once per listed worker, in listing
\* order, with current = 1, 2, ... and total the number of listed workers,
\* also for a worker whose fetch fails; and each invocation comes when the
\* fetch of its worker has completed, not before it starts.
C32_ProgressPerCompletedFetch ==
    /\ Len(progress) = scanIdx - 1
    /\ \A i \in DOMAIN progress :
          /\ progress[i].current = i
          /\ progress[i].total = Len(ListedWorkers)
          /\ progress[i].workerName = ListedWorkers[i]
          /\ progress[i].fetch # "pending"

\* C32 (amended): the progress callback is invoked once per listed worker,
\* in listing order, with current = 1, 2, ... and total the number of listed
\* workers, each time before the fetch of that worker starts, hence also for
\* a worker whose fetch then fails; when the scan is over it has been invoked
\* for every listed worker.
C32_ProgressBeforeEachFetch ==
    /\ Len(progress) = scanIdx - 1
    /\ \A i \in DOMAIN progress :
          /\ progress[i].current = i
          /\ progress[i].total = Len(ListedWorkers)
          /\ progress[i].workerName = ListedWorkers[i]
          /\ progress[i].fetch = "pending"
    /\ (apc = "scan" /\ ScanOver) => Len(progress) = Len(ListedWorkers)
    /\ \A w \in DOMAIN fetched :
          fetched[w] # "pending" => \E i \in DOMAIN progress : progress[i].workerName = w

\* the scan is over, the callback was invoked three times, and the fetch of
\* the second worker failed
C32_Witness ==
    /\ ScanOver
    /\ Len(progress) = 3 /\ progress[3].current = 3
    /\ fetched[ListedWorkers[2]] = "failed"

----------------------------------------------------------------------------
(* The session and its background work (specifications SpecSession,
   SpecSessionLive) *)

\* this step launches Execute
ExecuteLaunched == pc' = "deleteWorker" /\ pc # "deleteWorker"

\* C33: the plan's DeleteShared is written only in the confirm-shared state
\* and before Execute is launched; while the session is deleting no step
\* writes the session's plan or the plan Execute runs on, which stay the same
\* plan; and Execute is launched only from a confirmation state of a session
\* that has not launched it before, hence at most once.
C33_PlanStableWhileDeleting ==
    /\ [][mplan'.DeleteShared # mplan.DeleteShared =>
              (state = stateConfirmShared /\ entry = "none")]_vars
    /\ [][state = stateDeleting => (mplan' = mplan /\ plan' = plan)]_vars
    /\ [][ExecuteLaunched =>
              /\ entry = "none" /\ calls = <<>>
              /\ state \in {stateConfirmDeletion, stateConfirmShared}
              /\ state' = stateDeleting]_vars
    /\ [](entry = "Execute" => plan = mplan)

\* keys were pressed while the deletion of a plan with an accepted shared
\* resource was running
C33_Witness ==
    /\ state = stateDeleting /\ pc = "resources" /\ idx = 2
    /\ keyed[stateDeleting] = "yes" /\ keyed[stateConfirmShared] = "yes"
    /\ mplan.DeleteShared /\ Len(calls) = 2

\* C34: once background work has started the session gets to its end: from
\* the analyzing state it reaches show-plan with the plan set, or error with
\* Err set and the session over; from the deleting state it reaches complete
\* with Result set or error with Err set, and the session is over; and the
\* complete and error states are never left.
C34_BackgroundWorkEnds ==
    /\ (state = stateAnalyzing) ~>
           (\/ state = stateShowPlan /\ mplan # NoPlan
            \/ state = stateError /\ mErr # NilError /\ quit)
    /\ (state = stateDeleting) ~>
           (quit /\ (\/ state = stateComplete /\ mResult # NoResult
                     \/ state = stateError /\ mErr # NilError))
    /\ [][(state = stateComplete \/ state = stateError) => (state' = state)]_vars

\* the deletion ended in the error state: the worker could not be deleted
C34_Witness ==
    /\ state = stateError /\ quit
    /\ mErr # NilError /\ entry = "Execute" /\ pc = "returned"
    /\ Len(calls) = 1 /\ calls[1].outcome = "RemoteError"

\* the user answered no to the shared-resources prompt
SharedDeclined == keyed[stateConfirmShared] = "no"
\* this step of Execute handles the plan entry at idx
ResourceStep == pc = "resources" /\ idx' = idx + 1

----------------------------------------------------------------------------
(* Execute and its plan (specification Spec) *)

\* the plans a caller of Execute holds
CallerPlans ==
    {[CreateDeletionPlan(TargetWorkerInfo, rs, FALSE) EXCEPT !.DeleteShared = shared] :
        rs \in SeqsUpTo(PlanEntries, MaxPlanLen), shared \in BOOLEAN}

\* C36: Execute does not modify the plan it is given: no step of a running
\* Execute, dry-run or real, changes plan.Worker, ResourcesToDelete,
\* HasSharedResources, DeleteShared or DeleteExclusiveOnly, and when it has
\* returned, with or without failures, the plan is still one a caller can
\* hand to Execute.
C36_ExecuteLeavesPlan ==
    /\ [][InExecute => (plan' = plan)]_vars
    /\ []((entry = "Execute" /\ pc = "returned") => plan \in CallerPlans)

\* a real run over two entries, one deleted and one failed, has returned
C36_Witness ==
    /\ RealReturned /\ entry = "Execute"
    /\ Len(Planned) = 2 /\ plan.DeleteShared
    /\ Len(calls) = 3 /\ calls[2].outcome = "ok" /\ calls[3].outcome = "NotFound"
    /\ result.ResourcesDeleted # <<>> /\ result.Errors # <<>>

----------------------------------------------------------------------------
(* internal/ui: the progressTracker shared by the analysis goroutine, which
   calls update from the progress callback, and the UI poller, which calls get
   on every progressPollMsg *)

\* the arguments of the i-th callback invocation of the scan
UpdateArgs(i) ==
    [current |-> i, total |-> Len(ListedWorkers), workerName |-> ListedWorkers[i]]

\* mutant: Lock does not wait for the readers
LockEnabledIgnoresReaders(m) == ~m.writer

\* sync.RWMutex: Lock waits for the writer and for every reader
LockEnabled(m) == ~m.writer /\ m.readers = 0
\* sync.RWMutex: RLock waits for the writer
RLockEnabled(m) == ~m.writer

\* update: p.mu.Lock()
UpdateLock ==
    /\ upc = "idle"
    /\ updIdx <= Len(ListedWorkers)
    /\ LockEnabled(pmu)
    /\ pmu' = [pmu EXCEPT !.writer = TRUE]
    /\ upc' = "current"
    /\ UNCHANGED <<pcurrent, ptotal, pworkerName, updIdx, gpc, got, shown>>

\* update: the three assignments, one at a time
UpdateWrite ==
    /\ upc \in {"current", "total", "workerName"}
    /\ IF upc = "current"
       THEN /\ pcurrent' = UpdateArgs(updIdx).current
            /\ upc' = "total"
            /\ UNCHANGED <<ptotal, pworkerName>>
       ELSE IF upc = "total"
       THEN /\ ptotal' = UpdateArgs(updIdx).total
            /\ upc' = "workerName"
            /\ UNCHANGED <<pcurrent, pworkerName>>
       ELSE /\ pworkerName' = UpdateArgs(updIdx).workerName
            /\ upc' = "unlock"
            /\ UNCHANGED <<pcurrent, ptotal>>
    /\ UNCHANGED <<pmu, updIdx, gpc, got, shown>>

\* update: the deferred p.mu.Unlock()
UpdateUnlock ==
    /\ upc = "unlock"
    /\ pmu' = [pmu EXCEPT !.writer = FALSE]
    /\ upc' = "idle"
    /\ updIdx' = updIdx + 1
    /\ UNCHANGED <<pcurrent, ptotal, pworkerName, gpc, got, shown>>

\* get: p.mu.RLock()
GetRLock ==
    /\ gpc = "idle"
    /\ RLockEnabled(pmu)
    /\ pmu' = [pmu EXCEPT !.readers = @ + 1]
    /\ gpc' = "current"
    /\ UNCHANGED <<pcurrent, ptotal, pworkerName, upc, updIdx, got, shown>>

\* get: the operands of the return statement, read left to right
GetRead ==
    /\ gpc \in {"current", "total", "workerName"}
    /\ IF gpc = "current"
       THEN got' = [got EXCEPT !.current = pcurrent] /\ gpc' = "total"
       ELSE IF gpc = "total"
       THEN got' = [got EXCEPT !.total = ptotal] /\ gpc' = "workerName"
       ELSE got' = [got EXCEPT !.workerName = pworkerName] /\ gpc' = "unlock"
    /\ UNCHANGED <<pmu, pcurrent, ptotal, pworkerName, upc, updIdx, shown>>

\* get: the deferred p.mu.RUnlock(); get returns got
GetRUnlock ==
    /\ gpc = "unlock"
    /\ pmu' = [pmu EXCEPT !.readers = @ - 1]
    /\ gpc' = "returned"
    /\ UNCHANGED <<pcurrent, ptotal, pworkerName, upc, updIdx, got, shown>>

\* Update on progressPollMsg: the triple get returned goes to the model's
\* fields and the next poll is scheduled
PollProgress ==
    /\ gpc = "returned"
    /\ shown' = got
    /\ gpc' = "idle"
    /\ UNCHANGED <<pmu, pcurrent, ptotal, pworkerName, upc, updIdx, got>>

InitTracker == TrackerIdle /\ DeleterIdle /\ ClassifyIdle /\ AnalyzeIdle /\ TuiIdle

NextTracker ==
    \/ UpdateLock /\ UNCHANGED <<dvars, cvars, avars, tvars>>
    \/ UpdateWrite /\ UNCHANGED <<dvars, cvars, avars, tvars>>
    \/ UpdateUnlock /\ UNCHANGED <<dvars, cvars, avars, tvars>>
    \/ GetRLock /\ UNCHANGED <<dvars, cvars, avars, tvars>>
    \/ GetRead /\ UNCHANGED <<dvars, cvars, avars, tvars>>
    \/ GetRUnlock /\ UNCHANGED <<dvars, cvars, avars, tvars>>
    \/ PollProgress /\ UNCHANGED <<dvars, cvars, avars, tvars>>

SpecTracker == InitTracker /\ [][NextTracker]_vars

\* the triples an update call writes
Written == {UpdateArgs(i) : i \in DOMAIN ListedWorkers}

\* C37: under every interleaving of update and get, the triple a get call
\* returns is the zero triple or the triple written by one update call, never
\* fields of two of them; and it is the triple of the last update that
\* completed before the get took its lock; so is what the session shows.
C37_GetReturnsOneUpdate ==
    /\ gpc \in {"idle", "unlock", "returned"} => got \in Written \cup {NoProgress}
    /\ shown \in Written \cup {NoProgress}
    /\ gpc = "unlock" =>
          got = IF updIdx = 1 THEN NoProgress ELSE UpdateArgs(updIdx - 1)

\* get returned the second update while the third is being written
C37_Witness ==
    /\ gpc = "idle" /\ got = UpdateArgs(2) /\ shown = UpdateArgs(2)
    /\ updIdx = 3 /\ upc = "workerName"

====
